---------------------------- MODULE Spec2Model ----------------------------
(***************************************************************************)
(* A model of the SOTA / Uptane update client (rvi_sota_client).           *)
(*                                                                         *)
(*   Part I    the EventInterpreter and CommandInterpreter loops           *)
(*             (sota-client/src/interpreter.rs), specification Spec        *)
(*   Part II   the Uptane metadata client and its Verifier                 *)
(*             (src/uptane.rs, sota-client/src/datatype/tuf.rs),           *)
(*             specification SpecUptane                                    *)
(*   Part III  the RVI image transfer handlers                             *)
(*             (sota-client/src/rvi/parameters.rs, services.rs),           *)
(*             specification SpecRvi                                       *)
(*                                                                         *)
(* The three parts share no state; each specification leaves the variables *)
(* of the other parts at their initial values.                             *)
(***************************************************************************)
EXTENDS Integers, Sequences, FiniteSets, TLC

VARIABLES
    \* ---- Part I: interpreter loops
    mode,        \* CommandInterpreter.mode: "Sota" | "Rvi" | "Uptane"
    pacman,      \* EventInterpreter.pacman: "Off" | "Deb" | "Uptane"
    auto_dl,     \* EventInterpreter.auto_dl
    sysinfo,     \* EventInterpreter.sysinfo.is_some()
    ei_auth,     \* EventInterpreter.auth (the variant)
    cfg_auth,    \* CommandInterpreter.config.auth.is_some()
    initial,     \* EventInterpreter.initial
    cmdq,        \* the CommandExec channel: [cmd, by], by the sender ("ei", "gw": history)
    broadcast,   \* every Event sent on the event channel, in order (history)
    ei_pos,      \* number of events of broadcast the EventInterpreter has received
    ci_pc,       \* CommandInterpreter: "recv" | "process" | "exited" | "panicked"
    ci_cur,      \* the command being processed and what process_command returns
    ci_auth,     \* CommandInterpreter.auth (the variant)
    ci_http,     \* CommandInterpreter.http: "Test", or the auth variant it was built from
    taken,       \* number of commands the CommandInterpreter has received (history)
    gw_sent,     \* number of commands sent by gateways (history, bounds the run)
    rvi_sent     \* number of events sent by the RVI services (history, bounds the run)

ivars == <<mode, pacman, auto_dl, sysinfo, ei_auth, cfg_auth, initial, cmdq, broadcast, ei_pos,
           ci_pc, ci_cur, ci_auth, ci_http, taken, gw_sent, rvi_sent>>

VARIABLES
    \* ---- Part II: the Uptane client
    verifier,    \* Uptane.verifier: [keys: registered key ids, roles: RoleName -> RoleMeta]
    metadata,    \* the files {metadata_path}/{service}/{role}.json: bytes, or NoFile
    persist,     \* Uptane.persist
    now,         \* Utc::now()
    call         \* the last get_root / get_director / get_repo call, until its caller has its result

uvars == <<verifier, metadata, persist, now, call>>

VARIABLES
    \* ---- Part III: the RVI services
    remote,      \* Services.remote: [backend: "None" | "Some"]
    transfers,   \* Services.transfers: [image_sizes: id -> size, active: id -> ImageWriter]
    rpc,         \* the last request of handle_service, until its reply is taken
    clock        \* the time, in periods of the prune ticker

rvars == <<remote, transfers, rpc, clock>>

VARIABLES
    \* ---- Part IV: the threads and the mutexes of Services
    threads      \* thread -> [op: what it runs, pos: steps done, held: mutexes, oldest first]

VARIABLES
    \* ---- Part V: functions applied to arguments
    fn_in,       \* the arguments
    fn_out       \* [kind: the function applied, out: what it returned]

fvars == <<fn_in, fn_out>>
ovars == <<threads, fvars>>

\* ---------------------------------------------------------------- bounds
MaxCmds == 3      \* commands the CommandInterpreter receives in one run
MaxGw   == 1      \* commands the gateways send in one run
MaxRvi  == 1      \* events the RVI services send in one run
MaxReqs == 2      \* update requests in one fetched list

Ids == {1, 2}     \* update ids

\* ---------------------------------------------------------------- values
Modes        == {"Sota", "Rvi", "Uptane"}
PacMans      == {"Off", "Deb", "Uptane"}
AuthVariants == {"None", "Certificate", "Credentials", "Token"}
HttpErrs     == {"HttpAuth", "Http"}     \* Error::HttpAuth, Error::Http
InstallCodes == {"OK", "ALREADY_PROCESSED", "INSTALL_FAILED", "GENERAL_ERROR"}
Statuses     == {"Pending", "InFlight", "Finished"}

\* An Event / a Command: its variant t, the update id it carries (0: none), and up to
\* two further fields x, y (a result code and a log text, an auth variant, ...);
\* reqs is the request list of UpdatesReceived.
Ev(t, id, x, y)  == [t |-> t, id |-> id, x |-> x, y |-> y, reqs |-> <<>>]
Cmd(t, id, x, y) == [t |-> t, id |-> id, x |-> x, y |-> y, reqs |-> <<>>]
NoCmd            == Cmd("-", 0, "", "")
NoEv             == Ev("-", 0, "", "")

\* impl Display for Error (the variants a command's execution returns here)
to_string(err) ==
    CASE err = "HttpAuth"   -> "HTTP authorization error"
      [] err = "Http"       -> "HTTP client error"
      [] err = "Config"     -> "Bad Config"
      [] err = "Package"    -> "Package error"
      [] err = "SystemInfo" -> "System info error"
      [] OTHER              -> "error"

\* InstallCode::is_success
is_success(code) == code \in {"OK", "ALREADY_PROCESSED"}


(***************************************************************************)
(* Part I.  EventInterpreter::interpret                                    *)
(***************************************************************************)

\* The commands queued for the requests of one UpdatesReceived event, in request
\* order; isinst is the set of request ids whose package pacman.is_installed reports.
RECURSIVE request_cmds_any_pending(_, _)
\* A variant that downloads every Pending request, whatever auto_dl says.
request_cmds_any_pending(reqs, isinst) ==
    IF reqs = <<>> THEN <<>>
    ELSE LET request == Head(reqs)
             id      == request.id
             queued  ==
                 CASE request.status = "Pending"
                        -> <<Cmd("StartDownload", id, "", "")>>
                   [] request.status = "InFlight" /\ pacman # "Off" /\ id \in isinst
                        -> <<Cmd("SendInstallReport", id, "OK", "<generated>")>>
                   [] request.status = "InFlight" /\ pacman # "Off" /\ id \notin isinst
                        -> <<Cmd("StartDownload", id, "", "")>>
                   [] OTHER -> <<>>
         IN  queued \o request_cmds_any_pending(Tail(reqs), isinst)

RECURSIVE request_cmds(_, _)
request_cmds(reqs, isinst) ==
    IF reqs = <<>> THEN <<>>
    ELSE LET request == Head(reqs)
             id      == request.id
             queued  ==
                 CASE request.status = "Pending" /\ auto_dl
                        -> <<Cmd("StartDownload", id, "", "")>>
                   [] request.status = "InFlight" /\ pacman = "Off"
                        -> <<>>
                   [] request.status = "InFlight" /\ pacman # "Off" /\ id \in isinst
                        -> <<Cmd("SendInstallReport", id, "OK", "<generated>")>>
                   [] request.status = "InFlight" /\ pacman # "Off" /\ id \notin isinst
                        -> <<Cmd("StartDownload", id, "", "")>>
                   [] OTHER -> <<>>
         IN  queued \o request_cmds(Tail(reqs), isinst)

\* What interpret does with one event: the commands it queues on ctx, the events it
\* sends on loop_tx and the new value of initial.  env.pkgs_ok: whether
\* pacman.installed_packages() succeeds; env.isinst: as above.
Interpreted(cmds, loop, ini) == [cmds |-> cmds, loop |-> loop, initial |-> ini]

\* The events of the bootstrap, in the order they are sent on loop_tx.
Bootstrap == <<Ev("InstalledPackagesNeeded", 0, "", ""),
               Ev("SystemInfoNeeded", 0, "", ""),
               Ev("UptaneManifestNeeded", 0, "", "")>>

\* An Authenticated arm without its guard.
authenticated_always(event) == Interpreted(<<>>, Bootstrap, FALSE)

\* Event::Authenticated if self.initial; an Authenticated event that fails the guard
\* matches no other arm.
authenticated(event) ==
    IF initial THEN Interpreted(<<>>, Bootstrap, FALSE)
    ELSE Interpreted(<<>>, <<>>, initial)

\* A DownloadComplete arm without its guard.
download_complete_always(event) ==
    Interpreted(<<Cmd("StartInstall", event.id, "", "")>>, <<>>, initial)

\* Event::DownloadComplete(ref dl) if self.pacman != PacMan::Off; a DownloadComplete
\* event that fails the guard matches no other arm.
download_complete(event) ==
    IF pacman # "Off"
    THEN Interpreted(<<Cmd("StartInstall", event.id, "", "")>>, <<>>, initial)
    ELSE Interpreted(<<>>, <<>>, initial)

\* A DownloadFailed arm that reports the update as installed.
download_failed_ok(event) ==
    Interpreted(<<Cmd("SendInstallReport", event.id, "OK", event.x)>>, <<>>, initial)

\* Event::DownloadFailed(id, reason)
download_failed(event) ==
    Interpreted(<<Cmd("SendInstallReport", event.id, "GENERAL_ERROR", event.x)>>, <<>>, initial)

\* Event::InstallComplete(result) | Event::InstallFailed(result)
install_result(event) ==
    Interpreted(<<Cmd("SendInstallReport", event.id, event.x, event.y)>>, <<>>, initial)

\* Event::InstalledPackagesNeeded if self.pacman != PacMan::Off: the command is queued
\* when pacman.installed_packages() returns Ok, the error is logged otherwise.
installed_packages_needed(event, env) ==
    Interpreted(IF env.pkgs_ok THEN <<Cmd("SendInstalledPackages", 0, "", "")>> ELSE <<>>,
                <<>>, initial)

\* An InstallReportSent arm that sends nothing on loop_tx.
install_report_sent_silent(event) == Interpreted(<<>>, <<>>, initial)

\* Event::InstallReportSent(_)
install_report_sent(event) ==
    Interpreted(<<>>, <<Ev("InstalledPackagesNeeded", 0, "", "")>>, initial)

\* A NotAuthenticated arm that queues the auth of the CommandInterpreter.
not_authenticated_ci_auth(event) ==
    Interpreted(<<Cmd("Authenticate", 0, ci_auth, "")>>, <<>>, initial)

\* Event::NotAuthenticated
not_authenticated(event) ==
    Interpreted(<<Cmd("Authenticate", 0, ei_auth, "")>>, <<>>, initial)

ei_interpret(event, env) ==
    LET out(cmds, loop, ini) == Interpreted(cmds, loop, ini)
    IN
    CASE event.t = "Authenticated" -> authenticated(event)
      [] event.t = "DownloadComplete" -> download_complete(event)
      [] event.t = "DownloadFailed" -> download_failed(event)
      [] event.t \in {"InstallComplete", "InstallFailed"} -> install_result(event)
      [] event.t = "InstalledPackagesNeeded" /\ pacman # "Off" ->
            installed_packages_needed(event, env)
      [] event.t = "InstallReportSent" -> install_report_sent(event)
      [] event.t = "NotAuthenticated" -> not_authenticated(event)
      [] event.t = "SystemInfoNeeded" ->
            out(IF sysinfo THEN <<Cmd("SendSystemInfo", 0, "", "")>> ELSE <<>>, <<>>, initial)
      [] event.t = "UpdatesReceived" ->
            out(request_cmds(event.reqs, env.isinst), <<>>, initial)
      [] event.t \in {"UptaneInstallComplete", "UptaneInstallFailed"} ->
            out(<<Cmd("UptaneSendManifest", 0, "Some", event.y)>>, <<>>, initial)
      [] event.t = "UptaneManifestNeeded" /\ pacman = "Uptane" ->
            out(<<Cmd("UptaneSendManifest", 0, "None", "")>>, <<>>, initial)
      [] event.t = "UptaneTargetsUpdated" ->
            out(<<Cmd("UptaneStartInstall", 0, "", "")>>, <<>>, initial)
      [] OTHER -> out(<<>>, <<>>, initial)


(***************************************************************************)
(* Part I.  CommandInterpreter::process_command and ::interpret            *)
(***************************************************************************)

\* An update request: its id, status and installPos.
Requests == [id : Ids, status : Statuses, pos : {1, 2}]

\* updates.sort_by_key(|u| u.installPos): a stable sort (insertion sort).
RECURSIVE insert_by_pos(_, _)
insert_by_pos(sorted, r) ==
    IF sorted = <<>> THEN <<r>>
    ELSE IF Head(sorted).pos <= r.pos
         THEN <<Head(sorted)>> \o insert_by_pos(Tail(sorted), r)
         ELSE <<r>> \o sorted

\* A variant of sort_by_key that leaves the order as fetched.
sort_by_key_unsorted(updates) == updates

RECURSIVE sort_by_key(_)
sort_by_key(updates) ==
    IF updates = <<>> THEN <<>>
    ELSE insert_by_pos(sort_by_key(SubSeq(updates, 1, Len(updates) - 1)),
                       updates[Len(updates)])

\* What the world answers while one command is processed: res is "ok" or the Error
\* the operation returns, code the installer's result code, new whether the verified
\* targets are new, reqs the fetched update requests.
Outcome(res, code, new, reqs) == [res |-> res, code |-> code, new |-> new, reqs |-> reqs]

\* The result of process_command: the events it sends on etx itself (pre), how it
\* ends (k: "Ok" with ev, "Err" with err, "Exit": process::exit, "Panic"), and the
\* interpreter's auth and http afterwards.
Ret(pre, k, ev, err, auth, http) ==
    [pre |-> pre, k |-> k, ev |-> ev, err |-> err, auth |-> auth, http |-> http]

is_testing == ci_http = "Test"

\* A variant of start_download that does not announce the download.
start_download_silent(cmd, o) ==
    Ret(<<>>, "Ok",
        IF o.res = "ok" THEN Ev("DownloadComplete", cmd.id, "", "")
        ELSE Ev("DownloadFailed", cmd.id, to_string(o.res), ""),
        "", ci_auth, ci_http)

\* process_command, the (StartDownload, _) arm.
start_download(cmd, o) ==
    Ret(<<Ev("DownloadingUpdate", cmd.id, "", "")>>, "Ok",
        IF o.res = "ok" THEN Ev("DownloadComplete", cmd.id, "", "")
        ELSE Ev("DownloadFailed", cmd.id, to_string(o.res), ""),
        "", ci_auth, ci_http)

\* A variant of start_install that announces the install twice.
start_install_twice(cmd, o) ==
    Ret(<<Ev("InstallingUpdate", cmd.id, "", ""), Ev("InstallingUpdate", cmd.id, "", "")>>,
        IF o.res = "ok" THEN "Ok" ELSE "Err",
        IF o.res # "ok" THEN NoEv
        ELSE IF is_success(o.code)
             THEN Ev("InstallComplete", cmd.id, o.code, "log")
             ELSE Ev("InstallFailed", cmd.id, o.code, "log"),
        IF o.res = "ok" THEN "" ELSE o.res, ci_auth, ci_http)

\* A variant of start_install that takes every result for a success.
start_install_any_code(cmd, o) ==
    Ret(<<Ev("InstallingUpdate", cmd.id, "", "")>>,
        IF o.res = "ok" THEN "Ok" ELSE "Err",
        IF o.res # "ok" THEN NoEv ELSE Ev("InstallComplete", cmd.id, o.code, "log"),
        IF o.res = "ok" THEN "" ELSE o.res, ci_auth, ci_http)

\* process_command, the (StartInstall, Sota) arm.
start_install(cmd, o) ==
    Ret(<<Ev("InstallingUpdate", cmd.id, "", "")>>,
        IF o.res = "ok" THEN "Ok" ELSE "Err",
        IF o.res # "ok" THEN NoEv
        ELSE IF is_success(o.code)
             THEN Ev("InstallComplete", cmd.id, o.code, "log")
             ELSE Ev("InstallFailed", cmd.id, o.code, "log"),
        IF o.res = "ok" THEN "" ELSE o.res, ci_auth, ci_http)

process_command(cmd, m, o) ==
    LET ok(ev)        == Ret(<<>>, "Ok", ev, "", ci_auth, ci_http)
        err           == Ret(<<>>, "Err", NoEv, o.res, ci_auth, ci_http)
        panic         == Ret(<<>>, "Panic", NoEv, "", ci_auth, ci_http)
        try(ev)       == IF o.res = "ok" THEN ok(ev) ELSE err
        ev0(t)        == Ev(t, 0, "", "")
    IN
    CASE cmd.t = "Authenticate" /\ cmd.x = "Credentials" ->
            IF ~cfg_auth THEN panic                       \* expect("auth config")
            ELSE IF o.res # "ok" THEN err                 \* oauth2(..)?
            ELSE Ret(<<>>, "Ok", ev0("Authenticated"), "", "Token",
                     IF is_testing THEN ci_http ELSE "Token")
      [] cmd.t = "Authenticate" /\ cmd.x # "Credentials" ->
            Ret(<<>>, "Ok", ev0("Authenticated"), "", cmd.x,
                IF is_testing THEN ci_http ELSE cmd.x)
      [] cmd.t = "GetUpdateRequests" /\ m = "Uptane" ->
            try(IF o.new THEN ev0("UptaneTargetsUpdated") ELSE ev0("UptaneNoUpdates"))
      [] cmd.t = "GetUpdateRequests" /\ m # "Uptane" ->
            try(IF o.reqs = <<>> THEN ev0("NoUpdateRequests")
                ELSE [ev0("UpdatesReceived") EXCEPT !.reqs = sort_by_key(o.reqs)])
      [] cmd.t = "ListInstalledPackages" -> try(ev0("FoundInstalledPackages"))
      [] cmd.t = "ListSystemInfo"        -> try(ev0("FoundSystemInfo"))
      [] cmd.t = "SendInstalledPackages" -> try(ev0("InstalledPackagesSent"))
      [] cmd.t = "SendInstalledSoftware" ->
            IF m = "Rvi" THEN try(ev0("InstalledSoftwareSent")) ELSE panic
      [] cmd.t = "SendSystemInfo"        -> try(ev0("SystemInfoSent"))
      [] cmd.t = "SendInstallReport"     -> try(Ev("InstallReportSent", cmd.id, cmd.x, cmd.y))
      [] cmd.t = "StartDownload" /\ m = "Rvi" ->
            try(Ev("DownloadingUpdate", cmd.id, "", ""))
      [] cmd.t = "StartDownload" /\ m # "Rvi" -> start_download(cmd, o)
      [] cmd.t = "StartInstall" -> IF m = "Sota" THEN start_install(cmd, o) ELSE panic
      [] cmd.t = "Shutdown" -> Ret(<<>>, "Exit", NoEv, "", ci_auth, ci_http)
      [] cmd.t = "UptaneSendManifest" ->
            IF m = "Uptane" THEN try(ev0("UptaneManifestSent")) ELSE panic
      [] cmd.t = "UptaneStartInstall" ->
            IF m # "Uptane" THEN panic
            ELSE CASE o.res = "ok" /\ is_success(o.code)
                        -> ok(Ev("UptaneInstallComplete", 0, "", "signed"))
                   [] o.res = "ok" /\ ~is_success(o.code)
                        -> ok(Ev("UptaneInstallFailed", 0, "", "signed"))
                   [] o.res = "Install"      \* uptane.install returns Err
                        -> ok(Ev("UptaneInstallFailed", 0, "", "primary_ecu"))
                   [] OTHER -> err            \* self.treehub()? / signed_report(..)?

\* A variant of terminal_event without the arm for Error::HttpAuth.
terminal_event_no_auth_arm(ret) ==
    CASE ret.k = "Ok"  -> ret.ev
      [] ret.k = "Err" -> Ev("Error", 0, to_string(ret.err), "")

\* interpret, lines 148-152: the event for what process_command returned.
terminal_event(ret) ==
    CASE ret.k = "Ok"                          -> ret.ev
      [] ret.k = "Err" /\ ret.err = "HttpAuth" -> Ev("NotAuthenticated", 0, "", "")
      [] ret.k = "Err" /\ ret.err # "HttpAuth" -> Ev("Error", 0, to_string(ret.err), "")

\* A variant of interpret_sends that also sends the reply on the broadcast channel.
interpret_sends_reply_too(event) == <<event, event>>

\* interpret, lines 153-154: the events sent on the broadcast channel at its end
\* (exec.etx, when present, is the reply channel of the command's sender, not the
\* broadcast channel).
interpret_sends(event) == <<event>>


(***************************************************************************)
(* Part I.  The two loops, the gateways and the RVI services as actions    *)
(***************************************************************************)

\* Sequences over S of length at most n.
SeqsUpTo(S, n) == UNION {[1..k -> S] : k \in 0..n}

\* The answers of the world to one command (see Outcome).
Outcomes(cmd, m) ==
    LET plain(rs) == {Outcome(r, "OK", FALSE, <<>>) : r \in rs}
    IN
    CASE cmd.t = "Authenticate" /\ cmd.x = "Credentials" -> plain({"ok"} \cup HttpErrs)
      [] cmd.t = "Authenticate" /\ cmd.x # "Credentials" -> plain({"ok"})
      [] cmd.t = "GetUpdateRequests" /\ m = "Uptane" ->
            {Outcome("ok", "OK", new, <<>>) : new \in BOOLEAN} \cup plain(HttpErrs)
      [] cmd.t = "GetUpdateRequests" /\ m # "Uptane" ->
            {Outcome("ok", "OK", FALSE, reqs) : reqs \in SeqsUpTo(Requests, MaxReqs)}
                \cup plain(HttpErrs)
      [] cmd.t = "ListInstalledPackages" -> plain({"ok", "Package"})
      [] cmd.t = "ListSystemInfo"        -> plain({"ok", "SystemInfo"})
      [] cmd.t = "SendSystemInfo"        -> plain({"ok", "SystemInfo"} \cup HttpErrs)
      [] cmd.t = "SendInstalledSoftware" -> plain({"ok", "Rvi"})
      [] cmd.t \in {"SendInstallReport", "StartDownload"} /\ m = "Rvi" -> plain({"ok", "Rvi"})
      [] cmd.t = "StartInstall" ->
            {Outcome("ok", code, FALSE, <<>>) : code \in {"OK", "ALREADY_PROCESSED", "INSTALL_FAILED"}}
                \cup plain(HttpErrs)
      [] cmd.t = "UptaneStartInstall" ->
            {Outcome("ok", code, FALSE, <<>>) : code \in {"OK", "INSTALL_FAILED"}}
                \cup plain({"Install", "Config"})
      [] cmd.t = "Shutdown" -> plain({"ok"})
      [] OTHER -> plain({"ok"} \cup HttpErrs)

\* The commands a gateway (or a test harness) puts on the CommandExec channel: the
\* channel accepts every Command.
GatewayCmds ==
    {Cmd("Authenticate", 0, a, "") : a \in AuthVariants}
    \cup {Cmd(t, 0, "", "") : t \in {"GetUpdateRequests", "ListInstalledPackages", "ListSystemInfo",
                                     "SendInstalledPackages", "SendInstalledSoftware",
                                     "SendSystemInfo", "Shutdown", "UptaneStartInstall"}}
    \cup {Cmd("UptaneSendManifest", 0, "None", "")}
    \cup {Cmd(t, id, "", "") : t \in {"StartDownload", "StartInstall"}, id \in Ids}
    \cup {Cmd("SendInstallReport", id, "OK", "log") : id \in Ids}

\* The events the RVI services forward to the event channel (Services.sender).
RviEvents ==
    {Ev(t, id, "", "") : t \in {"UpdateAvailable", "DownloadComplete"}, id \in Ids}
    \cup {Ev("InstalledSoftwareNeeded", 0, "", "")}

\* One entry of the broadcast history: the event, who sent it ("ci", "ei", "rvi"),
\* and for the CommandInterpreter the number n of the command it belongs to, that
\* CommandExec, whether the event is sent inside process_command ("mid") or at the
\* end of interpret ("term"), and the answer of the world (res) to the command.
Entry(ev, src, n, kind, exec, res) ==
    [ev |-> ev, src |-> src, n |-> n, kind |-> kind, exec |-> exec, res |-> res]

Entries(evs, src, n, kind, exec, res) ==
    [i \in 1..Len(evs) |-> Entry(evs[i], src, n, kind, exec, res)]

\* CommandExec { cmd, etx: None } and who sent it.
CommandExec(cmd, by) == [cmd |-> cmd, by |-> by]
NoExec == CommandExec(NoCmd, "-")

Idle == [exec |-> NoExec, ret |-> Ret(<<>>, "-", NoEv, "", "", ""), res |-> ""]

IInit ==
    /\ mode \in Modes
    /\ pacman \in PacMans
    /\ auto_dl \in BOOLEAN
    /\ sysinfo \in BOOLEAN
    /\ ei_auth \in {"Credentials", "Certificate"}
    /\ cfg_auth \in BOOLEAN
    /\ initial = TRUE
    /\ cmdq = <<>>
    /\ broadcast = <<>>
    /\ ei_pos = 0
    /\ ci_pc = "recv"
    /\ ci_cur = Idle
    /\ ci_auth = "None"
    /\ ci_http \in {"Test", "None"}
    /\ taken = 0
    /\ gw_sent = 0
    /\ rvi_sent = 0

Running == ci_pc # "exited"          \* process::exit ends every thread

\* A gateway sends a command.
GatewaySend ==
    /\ Running
    /\ gw_sent < MaxGw
    /\ \E c \in GatewayCmds : cmdq' = Append(cmdq, CommandExec(c, "gw"))
    /\ gw_sent' = gw_sent + 1
    /\ UNCHANGED <<mode, pacman, auto_dl, sysinfo, ei_auth, cfg_auth, initial, broadcast,
                   ei_pos, ci_pc, ci_cur, ci_auth, ci_http, taken, rvi_sent>>
    /\ UNCHANGED <<uvars, rvars, ovars>>

\* Services::handle_message forwards the event a handler returned.
RviForward ==
    /\ Running
    /\ mode = "Rvi"
    /\ rvi_sent < MaxRvi
    /\ \E e \in RviEvents : broadcast' = Append(broadcast, Entry(e, "rvi", 0, "rvi", NoExec, ""))
    /\ rvi_sent' = rvi_sent + 1
    /\ UNCHANGED <<mode, pacman, auto_dl, sysinfo, ei_auth, cfg_auth, initial, cmdq,
                   ei_pos, ci_pc, ci_cur, ci_auth, ci_http, taken, gw_sent>>
    /\ UNCHANGED <<uvars, rvars, ovars>>

\* Interpreter::run of the EventInterpreter: receive one event and interpret it.
EIInterpret ==
    /\ Running
    /\ ei_pos < Len(broadcast)
    /\ LET event == broadcast[ei_pos + 1].ev
           envs  == {[pkgs_ok |-> p, isinst |-> s] :
                        p \in IF event.t = "InstalledPackagesNeeded" THEN BOOLEAN ELSE {TRUE},
                        s \in IF event.t = "UpdatesReceived" THEN SUBSET Ids ELSE {{}}}
       IN \E env \in envs :
            LET r == ei_interpret(event, env)
            IN /\ cmdq' = cmdq \o [i \in 1..Len(r.cmds) |-> CommandExec(r.cmds[i], "ei")]
               /\ broadcast' = broadcast \o Entries(r.loop, "ei", 0, "loop", NoExec, "")
               /\ initial' = r.initial
    /\ ei_pos' = ei_pos + 1
    /\ UNCHANGED <<mode, pacman, auto_dl, sysinfo, ei_auth, cfg_auth, ci_pc, ci_cur,
                   ci_auth, ci_http, taken, gw_sent, rvi_sent>>
    /\ UNCHANGED <<uvars, rvars, ovars>>

\* Interpreter::run of the CommandInterpreter, first half: receive a command and run
\* process_command up to its return (or its exit or panic).
CIProcess ==
    /\ ci_pc = "recv"
    /\ cmdq # <<>>
    /\ taken < MaxCmds
    /\ LET exec == Head(cmdq)
       IN \E o \in Outcomes(exec.cmd, mode) :
            LET ret == process_command(exec.cmd, mode, o)
            IN /\ broadcast' = broadcast \o Entries(ret.pre, "ci", taken + 1, "mid", exec, o.res)
               /\ ci_cur' = [exec |-> exec, ret |-> ret, res |-> o.res]
               /\ ci_pc' = CASE ret.k = "Exit"  -> "exited"
                              [] ret.k = "Panic" -> "panicked"
                              [] OTHER           -> "process"
               /\ ci_auth' = ret.auth
               /\ ci_http' = ret.http
    /\ cmdq' = Tail(cmdq)
    /\ taken' = taken + 1
    /\ UNCHANGED <<mode, pacman, auto_dl, sysinfo, ei_auth, cfg_auth, initial, ei_pos,
                   gw_sent, rvi_sent>>
    /\ UNCHANGED <<uvars, rvars, ovars>>

\* Second half: interpret maps what process_command returned to the terminal event
\* and sends it.
CISend ==
    /\ ci_pc = "process"
    /\ LET sent == interpret_sends(terminal_event(ci_cur.ret))
       IN broadcast' = broadcast \o Entries(sent, "ci", taken, "term", ci_cur.exec, ci_cur.res)
    /\ ci_pc' = "recv"
    /\ ci_cur' = Idle
    /\ UNCHANGED <<mode, pacman, auto_dl, sysinfo, ei_auth, cfg_auth, initial, cmdq, ei_pos,
                   ci_auth, ci_http, taken, gw_sent, rvi_sent>>
    /\ UNCHANGED <<uvars, rvars, ovars>>

INext == GatewaySend \/ EIInterpret \/ CIProcess \/ CISend

(***************************************************************************)
(* Part II.  The Uptane client (src/uptane.rs) and its Verifier            *)
(***************************************************************************)
MaxVer  == 2      \* the versions 1..MaxVer of metadata the services serve
MaxNow  == 1      \* the clock runs from 0 to MaxNow
MaxSigs == 2      \* signatures on one TufSigned

Services == {"director", "repo"}     \* enum Service
Roles    == {"Root", "Targets"}      \* RoleName; Snapshot and Timestamp go the way of Targets
KeyIds   == {"k1", "k2"}

\* One signature of a TufSigned: its keyid, and whether sig verifies against the
\* canonical JSON of signed under the key of that id.
Signatures == [keyid : KeyIds, ok : BOOLEAN]

\* RoleMeta as deserialised from root.json: version is skipped by serde and takes
\* its default.
RoleMeta(keyids, threshold) == [keyids |-> keyids, threshold |-> threshold, version |-> 0]

\* Option<HashMap<..>> of RoleData.keys and RoleData.roles
Some(val) == [some |-> TRUE, val |-> val]
NoKeys    == [some |-> FALSE, val |-> {}]
NoRoles   == [some |-> FALSE, val |-> [r \in {} |-> RoleMeta({}, 0)]]

RoleData(type, version, expires, keys, roles) ==
    [type |-> type, version |-> version, expires |-> expires, keys |-> keys, roles |-> roles]

TufSigned(signatures, signed) == [signatures |-> signatures, signed |-> signed]

\* A variant of expired with the comparison turned round.
expired_inverted(data, t) == data.expires > t

\* RoleData::expired, with t for Utc::now()
expired(data, t) == data.expires < t

\* ---- the Verifier (its code is not among the sources: modelled from the spec, 4.2)

\* Verifier::default()
NoVerifier == [keys |-> {}, roles |-> [r \in {} |-> RoleMeta({}, 0)]]

\* add_key: idempotent registration
add_key(v, id) == [v EXCEPT !.keys = @ \cup {id}]

\* add_meta: idempotent; replaces the prior spec of the role
add_meta(v, role, meta) ==
    [v EXCEPT !.roles = [r \in DOMAIN @ \cup {role} |-> IF r = role THEN meta ELSE @[r]]]

\* set_version: records new; the caller gets version_of(v, role) as the old one
set_version(v, role, new) == [v EXCEPT !.roles[role].version = new]

version_of(v, role) == IF role \in DOMAIN v.roles THEN v.roles[role].version ELSE 0

\* verify, step 4: the key ids of the signatures that count
verified_keyids(v, role, sign) ==
    {sign.signatures[i].keyid : i \in {j \in DOMAIN sign.signatures :
        /\ sign.signatures[j].keyid \in v.roles[role].keyids
        /\ sign.signatures[j].keyid \in v.keys
        /\ sign.signatures[j].ok}}

Ok(ver)  == [k |-> "Ok", err |-> "", ver |-> ver]
Err(err) == [k |-> "Err", err |-> err, ver |-> 0]

\* verify(role, TufSigned) -> new_version
verify(v, role, sign, t) ==
    CASE role \notin DOMAIN v.roles -> Err("UptaneUnknownRole")
      [] role \in DOMAIN v.roles /\ sign.signed.type # role -> Err("UptaneInvalidRole")
      [] role \in DOMAIN v.roles /\ sign.signed.type = role /\ sign.signatures = <<>> ->
            Err("UptaneMissingSignatures")
      [] OTHER ->
            IF Cardinality(verified_keyids(v, role, sign)) < v.roles[role].threshold
            THEN Err("UptaneRoleThreshold")
            ELSE IF expired(sign.signed, t) THEN Err("UptaneExpired")
            ELSE IF sign.signed.version < v.roles[role].version THEN Err("UptaneOldVersion")
            ELSE Ok(sign.signed.version)

\* ---- Uptane

\* What a call returns, and the verifier it leaves.
Verified(v, old_ver, new_ver) ==
    [k |-> "Ok", err |-> "", verifier |-> v, old_ver |-> old_ver, new_ver |-> new_ver]
Failed(v, err) ==
    [k |-> "Err", err |-> err, verifier |-> v, old_ver |-> 0, new_ver |-> 0]

\* A variant of verify_data that goes on when verify fails.
verify_data_unchecked(v, role, buf, t) ==
    Verified(IF role \in DOMAIN v.roles THEN set_version(v, role, buf.signed.version) ELSE v,
             version_of(v, role), buf.signed.version)

\* Uptane::verify_data
verify_data(v, role, buf, t) ==
    LET new_ver == verify(v, role, buf, t)
    IN IF new_ver.k = "Err" THEN Failed(v, new_ver.err)
       ELSE Verified(set_version(v, role, new_ver.ver), version_of(v, role), new_ver.ver)

RECURSIVE add_keys(_, _)
add_keys(v, ids) ==
    IF ids = {} THEN v
    ELSE LET id == CHOOSE x \in ids : TRUE IN add_keys(add_key(v, id), ids \ {id})

RECURSIVE add_metas(_, _, _)
add_metas(v, metas, rs) ==
    IF rs = {} THEN v
    ELSE LET role == CHOOSE x \in rs : TRUE
         IN add_metas(add_meta(v, role, metas[role]), metas, rs \ {role})

\* A variant of get_root that gives the verifier back as it was when verify_data
\* fails.
get_root_restoring(v, buf, t) ==
    IF ~buf.signed.keys.some THEN Failed(v, "UptaneMissingField")
    ELSE IF ~buf.signed.roles.some THEN Failed(v, "UptaneMissingField")
    ELSE LET keys  == buf.signed.keys.val
             roles == buf.signed.roles.val
             ret   == verify_data(add_metas(add_keys(v, keys), roles, DOMAIN roles), "Root", buf, t)
         IN IF ret.k = "Err" THEN Failed(v, ret.err) ELSE ret

\* Uptane::get_root, from the bytes get_json returned to the result; the file is
\* written when the result is Ok and persist is set.
get_root(v, buf, t) ==
    IF ~buf.signed.keys.some THEN Failed(v, "UptaneMissingField")
    ELSE IF ~buf.signed.roles.some THEN Failed(v, "UptaneMissingField")
    ELSE LET keys  == buf.signed.keys.val
             roles == buf.signed.roles.val
         IN verify_data(add_metas(add_keys(v, keys), roles, DOMAIN roles), "Root", buf, t)

\* Uptane::get_director and Uptane::get_repo, from the bytes get_json returned
get_director(v, role, buf, t) == verify_data(v, role, buf, t)
get_repo(v, role, buf, t)     == verify_data(v, role, buf, t)

\* ---- the world of the Uptane client

\* The key and role tables a served root.json carries.
RootKeys  == {{"k1"}, KeyIds}
RootMetas == {RoleMeta({"k1"}, 1), RoleMeta(KeyIds, MaxSigs)}
RootRoles == [Roles -> RootMetas]

\* The bodies a service answers GET {role}.json with: for root.json a RoleData with
\* or without keys and roles, for another role a RoleData without them (verify_data
\* reads neither).
Bodies(tables) ==
    {TufSigned(sigs, RoleData(type, ver, exp, tb[1], tb[2])) :
        sigs \in SeqsUpTo(Signatures, MaxSigs), type \in Roles, ver \in 1..MaxVer,
        exp \in 0..(MaxNow + 1), tb \in tables}

ServedRoot ==
    Bodies({<<NoKeys, NoRoles>>} \cup {<<Some(ks), Some(rs)>> : ks \in RootKeys, rs \in RootRoles})

ServedOther == Bodies({<<NoKeys, NoRoles>>})

Served(role) == IF role = "Root" THEN ServedRoot ELSE ServedOther

NoBuf     == TufSigned(<<>>, RoleData("Root", 0, 0, NoKeys, NoRoles))
NoFile    == [exists |-> FALSE, buf |-> NoBuf]
File(buf) == [exists |-> TRUE, buf |-> buf]

\* A variant of get_json that asks the service whether or not the file exists.
get_json_always_fetches(files, service, role) ==
    {[k |-> "Ok", err |-> "", buf |-> b] : b \in Served(role)}
    \cup {[k |-> "Err", err |-> "Http", buf |-> NoBuf]}

\* Uptane::get_json: the file if it exists, else what the GET returns (a body, or an
\* error of the client).
get_json(files, service, role) ==
    IF files[service][role].exists
    THEN {[k |-> "Ok", err |-> "", buf |-> files[service][role].buf]}
    ELSE {[k |-> "Ok", err |-> "", buf |-> b] : b \in Served(role)}
         \cup {[k |-> "Err", err |-> "Http", buf |-> NoBuf]}

\* The last call: pc is "idle" (no call) or "returned" (the call op(service, role) got
\* the bytes got from get_json and has returned ret; before is the verifier it started
\* with and at the time it read from the clock).
NoGot  == [k |-> "-", err |-> "", buf |-> NoBuf]
NoCall == [pc |-> "idle", op |-> "-", service |-> "-", role |-> "-", got |-> NoGot,
           ret |-> Failed(NoVerifier, "-"), before |-> NoVerifier, at |-> 0]

UInit ==
    /\ verifier = NoVerifier
    /\ metadata = [s \in Services |-> [r \in Roles |-> NoFile]]
    /\ persist \in BOOLEAN
    /\ now = 0
    /\ call = NoCall

\* What every call leaves: the verifier, and the call for its caller.
Returns(op, service, role, got, ret) ==
    /\ verifier' = ret.verifier
    /\ call' = [pc |-> "returned", op |-> op, service |-> service, role |-> role, got |-> got,
                ret |-> [ret EXCEPT !.verifier = NoVerifier], before |-> verifier, at |-> now]

\* A variant that writes root.json whatever verify_data returned and whatever persist is.
persist_root_always(files, service, buf, ret, p) ==
    [files EXCEPT ![service]["Root"] = File(buf)]

\* get_root after verify_data(..)?: if self.persist, write_file({metadir}/{service}/root.json)
persist_root(files, service, buf, ret, p) ==
    IF ret.k = "Ok" /\ p THEN [files EXCEPT ![service]["Root"] = File(buf)] ELSE files

\* Uptane::get_root
GetRoot ==
    /\ call.pc = "idle"
    /\ \E service \in Services : \E got \in get_json(metadata, service, "Root") :
        LET ret == IF got.k = "Err" THEN Failed(verifier, got.err)
                   ELSE get_root(verifier, got.buf, now)
        IN /\ Returns("get_root", service, "Root", got, ret)
           /\ metadata' = persist_root(metadata, service, got.buf, ret, persist)
    /\ UNCHANGED <<persist, now>>
    /\ UNCHANGED <<ivars, rvars, ovars>>

\* Uptane::get_director
GetDirector ==
    /\ call.pc = "idle"
    /\ \E role \in Roles : \E got \in get_json(metadata, "director", role) :
        LET ret == IF got.k = "Err" THEN Failed(verifier, got.err)
                   ELSE get_director(verifier, role, got.buf, now)
        IN Returns("get_director", "director", role, got, ret)
    /\ UNCHANGED <<metadata, persist, now>>
    /\ UNCHANGED <<ivars, rvars, ovars>>

\* Uptane::get_repo
GetRepo ==
    /\ call.pc = "idle"
    /\ \E role \in Roles : \E got \in get_json(metadata, "repo", role) :
        LET ret == IF got.k = "Err" THEN Failed(verifier, got.err)
                   ELSE get_repo(verifier, role, got.buf, now)
        IN Returns("get_repo", "repo", role, got, ret)
    /\ UNCHANGED <<metadata, persist, now>>
    /\ UNCHANGED <<ivars, rvars, ovars>>

\* The caller has taken the result.
Return ==
    /\ call.pc = "returned"
    /\ call' = NoCall
    /\ UNCHANGED <<verifier, metadata, persist, now>>
    /\ UNCHANGED <<ivars, rvars, ovars>>

\* Time passes.
Tick ==
    /\ now < MaxNow
    /\ now' = now + 1
    /\ UNCHANGED <<verifier, metadata, persist, call>>
    /\ UNCHANGED <<ivars, rvars, ovars>>

UNext == GetRoot \/ GetDirector \/ GetRepo \/ Return \/ Tick

(***************************************************************************)
(* Part III: the RVI services (rvi/services.rs, rvi/parameters.rs)         *)
(***************************************************************************)
MaxSize  == 2     \* largest image size a Notify announces
MaxCount == 2     \* largest chunkscount of a Start
MaxData  == 2     \* longest decoded chunk
MaxByte  == 1     \* largest byte value of a chunk (0 is the byte of a hole)

Sizes   == 1..MaxSize
Counts  == 1..MaxCount
Indexes == 0..MaxCount
Bytes   == 1..MaxByte
Datas   == UNION {[1..n -> Bytes] : n \in 1..MaxData}

\* The image of each size that the backend cuts into chunks.
Images == {[i \in 1..n |-> ((i - 1) % MaxByte) + 1] : n \in Sizes}

\* SHA-256, collision free: the digest names the bytes it was computed from.
sha256(bytes) == <<"sha256", bytes>>

Checksums == {sha256(img) : img \in Images}

\* base64: the text of some bytes, or a text that is not base64 at all.
base64_encode(data) == <<"base64", data>>
NotBase64 == <<"not base64">>
base64_decode(text) ==
    IF text = NotBase64 THEN [k |-> "Err", data |-> <<>>]
    ELSE [k |-> "Ok", data |-> text[2]]

\* format!("{}", update_id)
image_name(id) == ToString(id)

\* ---- the requests' parameters
Notify(id, size)              == [t |-> "Notify", update_id |-> id, size |-> size]
Start(id, chunkscount, sum)   == [t |-> "Start", update_id |-> id,
                                  chunkscount |-> chunkscount, checksum |-> sum]
Chunk(id, bytes, index)       == [t |-> "Chunk", update_id |-> id, bytes |-> bytes, index |-> index]
Finish(id, signature)         == [t |-> "Finish", update_id |-> id, signature |-> signature]
Report                        == [t |-> "Report"]
Abort                         == [t |-> "Abort"]
Malformed                     == [t |-> "?"]

\* ChunkReceived { device, update_id, chunks }
ChunkReceived(id, chunks) == [update_id |-> id, chunks |-> chunks]

\* ---- images (the code of ImageMeta, ImageWriter and Transfers is not among the
\* sources: modelled from the spec, 3 and 4.4)

\* ImageMeta::new
ImageMeta(name, size, chunks, sum) ==
    [image_name |-> name, expected_size |-> size, expected_chunks |-> chunks,
     expected_sha256 |-> sum]

\* ImageWriter::new: the file at {images_dir}/{id}, truncated to zero
ImageWriter(meta) ==
    [meta |-> meta, chunks_written |-> {}, file |-> <<>>, last_touched |-> clock]

\* chunk_size = ceil(size / chunks_count)
chunk_size(meta) == (meta.expected_size + meta.expected_chunks - 1) \div meta.expected_chunks

\* seek to offset and write: bytes past the end extend the file, a hole reads as zeros
write_at(file, offset, data) ==
    LET len == IF offset + Len(data) > Len(file) THEN offset + Len(data) ELSE Len(file)
    IN [i \in 1..len |-> IF i > offset /\ i <= offset + Len(data) THEN data[i - offset]
                         ELSE IF i <= Len(file) THEN file[i] ELSE 0]

\* ImageWriter::write_chunk
write_chunk(writer, data, index) ==
    IF index >= writer.meta.expected_chunks
    THEN [k |-> "Err", writer |-> writer]
    ELSE [k |-> "Ok",
          writer |-> [writer EXCEPT
                        !.file = write_at(@, index * chunk_size(writer.meta), data),
                        !.chunks_written = @ \cup {index},
                        !.last_touched = clock]]

\* ImageWriter::verify_image
verify_image(writer) ==
    IF Cardinality(writer.chunks_written) # writer.meta.expected_chunks THEN "incomplete"
    ELSE IF sha256(writer.file) # writer.meta.expected_sha256 THEN "checksum"
    ELSE IF Len(writer.file) # writer.meta.expected_size THEN "size"
    ELSE "Ok"

\* Transfers::new
NoTransfers == [image_sizes |-> [i \in {} |-> 0],
                active |-> [i \in {} |-> ImageWriter(ImageMeta(image_name(0), 0, 0, sha256(<<>>)))]]

\* HashMap::insert, HashMap::remove
insert(map, key, val) == [k \in DOMAIN map \cup {key} |-> IF k = key THEN val ELSE map[k]]
remove(map, key)      == [k \in DOMAIN map \ {key} |-> map[k]]
clear(map)            == [k \in {} |-> map[k]]

\* chunks_written.iter().collect(), sort(), dedup()
RECURSIVE sorted(_)
sorted(set) ==
    IF set = {} THEN <<>>
    ELSE LET least == CHOOSE x \in set : \A y \in set : x <= y
         IN <<least>> \o sorted(set \ {least})

\* ---- rvi/services.rs: RemoteServices

\* RemoteServices::new
NoRemote == [backend |-> "None"]

\* RemoteServices::send_chunk_received; sent is what RpcRequest::send returns
send_chunk_received(r, chunk, sent) ==
    IF r.backend = "None" THEN "BackendServices not set"
    ELSE IF sent THEN "Ok" ELSE "send failed"

\* ---- rvi/parameters.rs: what Parameter::handle leaves and returns: Ok(Some(event)),
\* Ok(None) (event is NoEv) or Err(err); ack is the ChunkReceived it handed to
\* send_chunk_received, if it came that far.
Handled(r, t, k, event, err, ack) ==
    [remote |-> r, transfers |-> t, k |-> k, event |-> event, err |-> err, ack |-> ack]

\* Notify::handle
Notify_handle(msg, r, t, sent) ==
    Handled([r EXCEPT !.backend = "Some"],
            [t EXCEPT !.image_sizes = insert(@, msg.update_id, msg.size)],
            "Ok", Ev("UpdateAvailable", msg.update_id, "", ""), "", <<>>)

\* Start::handle, but an image that was not announced is taken to be empty
Start_handle_unannounced(msg, r, t, sent) ==
    LET size  == IF msg.update_id \in DOMAIN t.image_sizes
                 THEN t.image_sizes[msg.update_id] ELSE 0
        meta  == ImageMeta(image_name(msg.update_id), size, msg.chunkscount, msg.checksum)
        t2    == [t EXCEPT !.active = insert(@, msg.update_id, ImageWriter(meta))]
        chunk == ChunkReceived(msg.update_id, <<>>)
    IN IF send_chunk_received(r, chunk, sent) = "Ok"
       THEN Handled(r, t2, "Ok", NoEv, "", <<chunk>>)
       ELSE Handled(r, t2, "Err", NoEv, "error sending start ack", <<chunk>>)

\* Start::handle, but a transfer that is active is kept (HashMap::entry().or_insert)
Start_handle_keeps_active(msg, r, t, sent) ==
    IF msg.update_id \notin DOMAIN t.image_sizes
    THEN Handled(r, t, "Err", NoEv, "image size not found", <<>>)
    ELSE LET meta  == ImageMeta(image_name(msg.update_id), t.image_sizes[msg.update_id],
                                msg.chunkscount, msg.checksum)
             t2    == IF msg.update_id \in DOMAIN t.active THEN t
                      ELSE [t EXCEPT !.active = insert(@, msg.update_id, ImageWriter(meta))]
             chunk == ChunkReceived(msg.update_id, <<>>)
         IN IF send_chunk_received(r, chunk, sent) = "Ok"
            THEN Handled(r, t2, "Ok", NoEv, "", <<chunk>>)
            ELSE Handled(r, t2, "Err", NoEv, "error sending start ack", <<chunk>>)

\* Start::handle
Start_handle(msg, r, t, sent) ==
    IF msg.update_id \notin DOMAIN t.image_sizes
    THEN Handled(r, t, "Err", NoEv, "image size not found", <<>>)
    ELSE LET meta  == ImageMeta(image_name(msg.update_id), t.image_sizes[msg.update_id],
                                msg.chunkscount, msg.checksum)
             t2    == [t EXCEPT !.active = insert(@, msg.update_id, ImageWriter(meta))]
             chunk == ChunkReceived(msg.update_id, <<>>)
         IN IF send_chunk_received(r, chunk, sent) = "Ok"
            THEN Handled(r, t2, "Ok", NoEv, "", <<chunk>>)
            ELSE Handled(r, t2, "Err", NoEv, "error sending start ack", <<chunk>>)

\* Chunk::handle, but a chunk is written whatever its index
Chunk_handle_any_index(msg, r, t, sent) ==
    IF msg.update_id \notin DOMAIN t.active
    THEN Handled(r, t, "Err", NoEv, "couldn't find transfer", <<>>)
    ELSE LET writer == t.active[msg.update_id]
             wrote  == [writer EXCEPT
                          !.file = write_at(@, msg.index * chunk_size(writer.meta),
                                            base64_decode(msg.bytes).data),
                          !.chunks_written = @ \cup {msg.index}]
         IN Handled(r, [t EXCEPT !.active[msg.update_id] = wrote], "Ok", NoEv, "", <<>>)

\* Chunk::handle, but the bytes are written at the end of the file
Chunk_handle_appending(msg, r, t, sent) ==
    IF msg.update_id \notin DOMAIN t.active
    THEN Handled(r, t, "Err", NoEv, "couldn't find transfer", <<>>)
    ELSE LET writer  == t.active[msg.update_id]
             decoded == base64_decode(msg.bytes)
             wrote   == [writer EXCEPT !.file = @ \o decoded.data,
                                       !.chunks_written = @ \cup {msg.index}]
             chunk   == ChunkReceived(msg.update_id, sorted(wrote.chunks_written))
         IN IF decoded.k = "Err" \/ msg.index >= writer.meta.expected_chunks
            THEN Handled(r, t, "Err", NoEv, "couldn't write chunk", <<>>)
            ELSE Handled(r, [t EXCEPT !.active[msg.update_id] = wrote], "Ok", NoEv, "",
                         <<chunk>>)

\* Chunk::handle, but a chunk whose acknowledgement fails is not kept
Chunk_handle_acked_only(msg, r, t, sent) ==
    IF msg.update_id \notin DOMAIN t.active
    THEN Handled(r, t, "Err", NoEv, "couldn't find transfer", <<>>)
    ELSE LET writer  == t.active[msg.update_id]
             decoded == base64_decode(msg.bytes)
             wrote   == write_chunk(writer, decoded.data, msg.index)
             t2      == [t EXCEPT !.active[msg.update_id] = wrote.writer]
             chunk   == ChunkReceived(msg.update_id, sorted(wrote.writer.chunks_written))
         IN IF decoded.k = "Err" THEN Handled(r, t, "Err", NoEv, "couldn't decode chunk", <<>>)
            ELSE IF wrote.k = "Err" THEN Handled(r, t, "Err", NoEv, "couldn't write chunk", <<>>)
            ELSE IF send_chunk_received(r, chunk, sent) = "Ok"
            THEN Handled(r, t2, "Ok", NoEv, "", <<chunk>>)
            ELSE Handled(r, t, "Err", NoEv, "error sending ChunkReceived", <<chunk>>)

\* Chunk::handle
Chunk_handle(msg, r, t, sent) ==
    IF msg.update_id \notin DOMAIN t.active
    THEN Handled(r, t, "Err", NoEv, "couldn't find transfer", <<>>)
    ELSE LET writer  == t.active[msg.update_id]
             decoded == base64_decode(msg.bytes)
             wrote   == write_chunk(writer, decoded.data, msg.index)
             t2      == [t EXCEPT !.active[msg.update_id] = wrote.writer]
             chunk   == ChunkReceived(msg.update_id, sorted(wrote.writer.chunks_written))
         IN IF decoded.k = "Err" THEN Handled(r, t, "Err", NoEv, "couldn't decode chunk", <<>>)
            ELSE IF wrote.k = "Err" THEN Handled(r, t, "Err", NoEv, "couldn't write chunk", <<>>)
            ELSE IF send_chunk_received(r, chunk, sent) = "Ok"
            THEN Handled(r, t2, "Ok", NoEv, "", <<chunk>>)
            ELSE Handled(r, t2, "Err", NoEv, "error sending ChunkReceived", <<chunk>>)

\* Finish::handle, but what verify_image finds is not looked at
Finish_handle_unverified(msg, r, t, sent) ==
    IF msg.update_id \notin DOMAIN t.active
    THEN Handled(r, t, "Err", NoEv, "unknown package", <<>>)
    ELSE Handled(r, [t EXCEPT !.active = remove(@, msg.update_id)], "Ok",
                 Ev("DownloadComplete", msg.update_id,
                    t.active[msg.update_id].meta.image_name, msg.signature), "", <<>>)

\* Finish::handle, but a transfer that fails verify_image is dropped
Finish_handle_drops_failed(msg, r, t, sent) ==
    IF msg.update_id \notin DOMAIN t.active
    THEN Handled(r, t, "Err", NoEv, "unknown package", <<>>)
    ELSE IF verify_image(t.active[msg.update_id]) # "Ok"
    THEN Handled(r, [t EXCEPT !.active = remove(@, msg.update_id)], "Err", NoEv,
                 "couldn't assemble package", <<>>)
    ELSE Handled(r, [t EXCEPT !.active = remove(@, msg.update_id)], "Ok",
                 Ev("DownloadComplete", msg.update_id,
                    t.active[msg.update_id].meta.image_name, msg.signature), "", <<>>)

\* Finish::handle
Finish_handle(msg, r, t, sent) ==
    IF msg.update_id \notin DOMAIN t.active
    THEN Handled(r, t, "Err", NoEv, "unknown package", <<>>)
    ELSE IF verify_image(t.active[msg.update_id]) # "Ok"
    THEN Handled(r, t, "Err", NoEv, "couldn't assemble package", <<>>)
    ELSE Handled(r, [t EXCEPT !.active = remove(@, msg.update_id)], "Ok",
                 Ev("DownloadComplete", msg.update_id,
                    t.active[msg.update_id].meta.image_name, msg.signature), "", <<>>)

\* Report::handle
Report_handle(msg, r, t, sent) ==
    Handled(r, t, "Ok", Ev("InstalledSoftwareNeeded", 0, "", ""), "", <<>>)

\* Abort::handle, but only one transfer is removed
Abort_handle_one(msg, r, t, sent) ==
    IF DOMAIN t.active = {} THEN Handled(r, t, "Ok", NoEv, "", <<>>)
    ELSE Handled(r, [t EXCEPT !.active = remove(@, CHOOSE id \in DOMAIN @ : TRUE)],
                 "Ok", NoEv, "", <<>>)

\* Abort::handle, but the sizes announced are forgotten too
Abort_handle_forgets_sizes(msg, r, t, sent) ==
    Handled(r, [t EXCEPT !.active = clear(@), !.image_sizes = [i \in {} |-> 0]],
            "Ok", NoEv, "", <<>>)

\* Abort::handle
Abort_handle(msg, r, t, sent) ==
    Handled(r, [t EXCEPT !.active = clear(@)], "Ok", NoEv, "", <<>>)

\* ---- rvi/json_rpc.rs: the replies
invalid_request == -32600
invalid_params  == -32602
unspecified     == -32100

\* What a request leaves and answers: the reply (RpcOk, or RpcErr with its code) and
\* the Event sent to Services.sender (NoEv: none).
Answered(h, code) ==
    [remote |-> h.remote, transfers |-> h.transfers,
     reply |-> IF code = 0 THEN "RpcOk" ELSE "RpcErr", code |-> code,
     event |-> IF code = 0 THEN h.event ELSE NoEv, err |-> h.err, ack |-> h.ack]

\* A request for P that decodes, its parameters an empty list.
NoParameters(P) == [t |-> P, parameters |-> <<>>]

\* request.params.parameters[0] of an empty list: the thread panics, nothing is
\* returned.
Panicked(r, t) ==
    [remote |-> r, transfers |-> t, reply |-> "Panic", code |-> 0, event |-> NoEv,
     err |-> "index out of bounds", ack |-> <<>>]

\* Services::handle_message::<P>; handled is P::handle of parameters[0], the msg
\* here (but for NoParameters)
handle_message(P, msg, r, t, handled) ==
    IF msg.t # P
    THEN Answered(Handled(r, t, "Err", NoEv, "couldn't decode message", <<>>), invalid_params)
    ELSE IF msg = NoParameters(P) THEN Panicked(r, t)
    ELSE IF handled.k = "Err" THEN Answered(handled, unspecified)
    ELSE Answered(handled, 0)

\* Services::handle_service
handle_service(service, msg, r, t, sent) ==
    CASE service = "/sota/notify"      -> handle_message("Notify", msg, r, t, Notify_handle(msg, r, t, sent))
      [] service = "/sota/start"       -> handle_message("Start", msg, r, t, Start_handle(msg, r, t, sent))
      [] service = "/sota/chunk"       -> handle_message("Chunk", msg, r, t, Chunk_handle(msg, r, t, sent))
      [] service = "/sota/finish"      -> handle_message("Finish", msg, r, t, Finish_handle(msg, r, t, sent))
      [] service = "/sota/getpackages" -> handle_message("Report", msg, r, t, Report_handle(msg, r, t, sent))
      [] service = "/sota/abort"       -> handle_message("Abort", msg, r, t, Abort_handle(msg, r, t, sent))
      [] OTHER -> Answered(Handled(r, t, "Err", NoEv, "unknown service", <<>>), invalid_request)

\* ---- the requests the RVI node delivers
NotifyMsgs == {Notify(id, size) : id \in Ids, size \in Sizes}
StartMsgs  == {Start(id, n, sum) : id \in Ids, n \in Counts, sum \in Checksums}
ChunkMsgs  == {Chunk(id, bytes, index) : id \in Ids, index \in Indexes,
                   bytes \in {base64_encode(d) : d \in Datas} \cup {NotBase64}}
FinishMsgs == {Finish(id, "sig") : id \in Ids}

\* The last request: pc is "idle" (none) or "replied" (handle_service has answered
\* msg for service with reply and code, has sent event to Services.sender and ack to
\* the backend; before is what it started from).
NoRpc == [pc |-> "idle", service |-> "-", msg |-> Malformed, reply |-> "-", code |-> 0,
          event |-> NoEv, err |-> "", ack |-> <<>>,
          before |-> [remote |-> NoRemote, transfers |-> NoTransfers]]

RInit ==
    /\ remote = NoRemote
    /\ transfers = NoTransfers
    /\ rpc = NoRpc
    /\ clock = 0

\* What every request leaves: the services' state, and the reply for its sender.
Replies(service, msg, sent) ==
    LET a == handle_service(service, msg, remote, transfers, sent)
    IN /\ remote' = a.remote
       /\ transfers' = a.transfers
       /\ rpc' = [pc |-> "replied", service |-> service, msg |-> msg, reply |-> a.reply,
                  code |-> a.code, event |-> a.event, err |-> a.err, ack |-> a.ack,
                  before |-> [remote |-> remote, transfers |-> transfers]]
       /\ clock' = clock

\* "/sota/notify"
RviNotify ==
    /\ rpc.pc = "idle"
    /\ \E msg \in NotifyMsgs \cup {Malformed} : Replies("/sota/notify", msg, TRUE)
    /\ UNCHANGED <<ivars, uvars, ovars>>

\* "/sota/start"
RviStart ==
    /\ rpc.pc = "idle"
    /\ \E msg \in StartMsgs \cup {Malformed}, sent \in BOOLEAN : Replies("/sota/start", msg, sent)
    /\ UNCHANGED <<ivars, uvars, ovars>>

\* "/sota/chunk"
RviChunk ==
    /\ rpc.pc = "idle"
    /\ \E msg \in ChunkMsgs \cup {Malformed}, sent \in BOOLEAN : Replies("/sota/chunk", msg, sent)
    /\ UNCHANGED <<ivars, uvars, ovars>>

\* "/sota/finish"
RviFinish ==
    /\ rpc.pc = "idle"
    /\ \E msg \in FinishMsgs \cup {Malformed} : Replies("/sota/finish", msg, TRUE)
    /\ UNCHANGED <<ivars, uvars, ovars>>

\* "/sota/getpackages"
RviReport ==
    /\ rpc.pc = "idle"
    /\ \E msg \in {Report, Malformed} : Replies("/sota/getpackages", msg, TRUE)
    /\ UNCHANGED <<ivars, uvars, ovars>>

\* "/sota/abort"
RviAbort ==
    /\ rpc.pc = "idle"
    /\ \E msg \in {Abort, Malformed} : Replies("/sota/abort", msg, TRUE)
    /\ UNCHANGED <<ivars, uvars, ovars>>

\* a service that is not registered
RviUnknown ==
    /\ rpc.pc = "idle"
    /\ Replies("/sota/unknown", Malformed, TRUE)
    /\ UNCHANGED <<ivars, uvars, ovars>>

\* The sender has taken the reply.
Reply ==
    /\ rpc.pc # "idle"
    /\ rpc' = NoRpc
    /\ UNCHANGED <<remote, transfers, clock>>
    /\ UNCHANGED <<ivars, uvars, ovars>>

RNext == RviNotify \/ RviStart \/ RviChunk \/ RviFinish \/ RviReport \/ RviAbort
         \/ RviUnknown \/ Reply

\* ---- the prune ticker (Services::new)
Timeout  == 1     \* RviConfig.timeout, in periods of the ticker
MaxClock == 2     \* the clock runs from 0 to MaxClock

\* Transfers::prune (not among the sources: modelled from the spec, 4.4): removes
\* the transfers idle for longer than the timeout
prune(t) ==
    LET kept == {id \in DOMAIN t.active : clock - t.active[id].last_touched <= Timeout}
    IN [t EXCEPT !.active = [id \in kept |-> t.active[id]]]

\* One round of the prune thread in which nothing is pruned
Prune_nothing ==
    /\ rpc.pc = "idle"
    /\ rpc' = [NoRpc EXCEPT !.pc = "pruned", !.service = "prune",
                            !.before = [remote |-> remote, transfers |-> transfers]]
    /\ UNCHANGED <<remote, transfers, clock>>
    /\ UNCHANGED <<ivars, uvars, ovars>>

\* One round of the prune thread: tick.recv(), lock, transfers.prune(). rpc keeps
\* what it started from until the next request is taken.
Prune ==
    /\ rpc.pc = "idle"
    /\ transfers' = prune(transfers)
    /\ rpc' = [NoRpc EXCEPT !.pc = "pruned", !.service = "prune",
                            !.before = [remote |-> remote, transfers |-> transfers]]
    /\ UNCHANGED <<remote, clock>>
    /\ UNCHANGED <<ivars, uvars, ovars>>

\* A period of the ticker passes.
RTick ==
    /\ rpc.pc = "idle"
    /\ clock < MaxClock
    /\ clock' = clock + 1
    /\ UNCHANGED <<remote, transfers, rpc>>
    /\ UNCHANGED <<ivars, uvars, ovars>>

\* The requests for images of one byte in one chunk.
PruneMsgs ==
    {m \in NotifyMsgs : m.size = 1}
    \cup {m \in StartMsgs : m.chunkscount = 1 /\ m.checksum = sha256(<<1>>)}
    \cup {m \in ChunkMsgs : m.bytes = base64_encode(<<1>>)}
    \cup FinishMsgs \cup {Report, Abort, Malformed}

Small == rpc'.msg \in PruneMsgs

PNext == \/ RviNotify /\ Small
         \/ RviStart /\ Small
         \/ RviChunk /\ Small
         \/ RviFinish /\ Small
         \/ RviReport
         \/ RviAbort
         \/ RviUnknown
         \/ Reply
         \/ Prune
         \/ RTick

\* The same requests, a Notify announcing any size.
ZNext == \/ RviNotify
         \/ RviStart /\ Small
         \/ RviChunk /\ Small
         \/ RviFinish /\ Small
         \/ RviReport
         \/ RviAbort
         \/ RviUnknown
         \/ Reply
         \/ Prune
         \/ RTick

\* The RVI services at rest.
RIdle == RInit

(***************************************************************************)
(* Part IV: the threads that lock Services.remote, Services.transfers and  *)
(* Services.sender                                                         *)
(***************************************************************************)
Handlers == {"rvi1", "rvi2"}       \* threads in Services::handle_service
Threads  == Handlers \cup {"prune", "ci"}
Mutexes  == {"remote", "transfers", "sender"}

\* mutex.lock().unwrap() and the end of the guard's life
Lock(m)   == <<"lock", m>>
Unlock(m) == <<"unlock", m>>

\* What a thread can run.
OpsOf(th) ==
    CASE th \in Handlers -> {"Notify", "Start", "Chunk", "Finish", "Report", "Abort"}
      [] th = "prune"    -> {"prune"}
      [] th = "ci"       -> {"SendInstalledSoftware", "SendInstallReport", "StartDownload"}

\* The order of Chunk::handle's locks, the other way round.
locks_chunk_swapped(op) ==
    CASE op = "Notify" -> <<Lock("remote"), Unlock("remote"), Lock("transfers"),
                            Unlock("transfers"), Lock("sender"), Unlock("sender")>>
      [] op = "Start"  -> <<Lock("remote"), Lock("transfers"), Unlock("transfers"),
                            Unlock("remote")>>
      [] op = "Chunk"  -> <<Lock("transfers"), Lock("remote"), Unlock("remote"),
                            Unlock("transfers")>>
      [] op = "Finish" -> <<Lock("transfers"), Unlock("transfers"), Lock("sender"),
                            Unlock("sender")>>
      [] op = "Report" -> <<Lock("sender"), Unlock("sender")>>
      [] op \in {"Abort", "prune"} -> <<Lock("transfers"), Unlock("transfers")>>
      [] OTHER -> <<Lock("remote"), Unlock("remote")>>

\* The locks and unlocks of each operation, in program order: a guard bound by let
\* lives to the end of handle (the later one is dropped first), a temporary guard to
\* the end of its statement; handle_message locks sender for the Event returned.
locks(op) ==
    CASE op = "Notify" -> <<Lock("remote"), Unlock("remote"), Lock("transfers"),
                            Unlock("transfers"), Lock("sender"), Unlock("sender")>>
      [] op \in {"Start", "Chunk"}
                       -> <<Lock("remote"), Lock("transfers"), Unlock("transfers"),
                            Unlock("remote")>>
      [] op = "Finish" -> <<Lock("transfers"), Unlock("transfers"), Lock("sender"),
                            Unlock("sender")>>
      [] op = "Report" -> <<Lock("sender"), Unlock("sender")>>
      [] op \in {"Abort", "prune"} -> <<Lock("transfers"), Unlock("transfers")>>
      [] OTHER -> <<Lock("remote"), Unlock("remote")>>

\* A thread between two operations.
Resting == [op |-> "-", pos |-> 0, held |-> <<>>]

\* The step a thread is at, and who holds a mutex.
Step(th)  == locks(threads[th].op)[threads[th].pos + 1]
Busy(th)  == threads[th].op # "-"
AtEnd(th) == Busy(th) /\ threads[th].pos = Len(locks(threads[th].op))
Holds(th, m) == \E i \in DOMAIN threads[th].held : threads[th].held[i] = m
Free(m)   == \A th \in Threads : ~Holds(th, m)

LInit == threads = [th \in Threads |-> Resting]

\* A thread starts an operation: a request, a tick, a command.
Call ==
    /\ \E th \in Threads : \E op \in OpsOf(th) :
          /\ ~Busy(th)
          /\ threads' = [threads EXCEPT ![th] = [op |-> op, pos |-> 0, held |-> <<>>]]
    /\ UNCHANGED <<ivars, uvars, rvars, fvars>>

\* mutex.lock(): blocks until the mutex is free
Acquire ==
    /\ \E th \in Threads :
          /\ Busy(th) /\ ~AtEnd(th)
          /\ Step(th)[1] = "lock"
          /\ Free(Step(th)[2])
          /\ threads' = [threads EXCEPT ![th].pos = @ + 1,
                                        ![th].held = Append(@, Step(th)[2])]
    /\ UNCHANGED <<ivars, uvars, rvars, fvars>>

\* the guard is dropped
Release ==
    /\ \E th \in Threads :
          /\ Busy(th) /\ ~AtEnd(th)
          /\ Step(th)[1] = "unlock"
          /\ threads' = [threads EXCEPT ![th].pos = @ + 1,
                                        ![th].held = SelectSeq(@, LAMBDA m : m # Step(th)[2])]
    /\ UNCHANGED <<ivars, uvars, rvars, fvars>>

\* The operation returns.
Done ==
    /\ \E th \in Threads :
          /\ AtEnd(th)
          /\ threads' = [threads EXCEPT ![th] = Resting]
    /\ UNCHANGED <<ivars, uvars, rvars, fvars>>

LNext == Call \/ Acquire \/ Release \/ Done

\* The threads at rest.
LIdle == LInit

(***************************************************************************)
(* Part V: Auth and its Display and Debug (datatype/auth.rs)               *)
(***************************************************************************)
ClientIds     == {"id1", "id2"}
ClientSecrets == {"secret1", "secret2"}
AccessTokens  == {"token1", "token2"}

\* Auth: the variant and the fields of ClientCredentials and AccessToken
AuthOf(variant, client_id, client_secret, access_token) ==
    [variant |-> variant, client_id |-> client_id, client_secret |-> client_secret,
     access_token |-> access_token]

AuthValues ==
    {AuthOf("None", "", "", ""), AuthOf("Certificate", "", "", "")}
    \cup {AuthOf("Credentials", id, secret, "") : id \in ClientIds, secret \in ClientSecrets}
    \cup {AuthOf("Token", "", "", token) : token \in AccessTokens}

\* A Display that writes the fields too; the output is the sequence of the pieces
\* written.
Display_fmt_fields(auth) ==
    CASE auth.variant = "None"        -> <<"Auth::None">>
      [] auth.variant = "Token"       -> <<"Auth::Token(", auth.access_token, ")">>
      [] auth.variant = "Certificate" -> <<"Auth::Certificate">>
      [] auth.variant = "Credentials" -> <<"Auth::Credentials(", auth.client_id, ", ",
                                           auth.client_secret, ")">>

\* impl Display for Auth
Display_fmt(auth) ==
    CASE auth.variant = "None"        -> <<"Auth::None">>
      [] auth.variant = "Token"       -> <<"Auth::Token">>
      [] auth.variant = "Certificate" -> <<"Auth::Certificate">>
      [] auth.variant = "Credentials" -> <<"Auth::Credentials">>

\* impl Debug for Auth: write!(f, "{}", self)
Debug_fmt(auth) == Display_fmt(auth)

\* No function applied yet.
NoOut == [kind |-> "-", out |-> <<>>]
FIdle == fn_in = <<>> /\ fn_out = NoOut

\* Two Auth values to render.
AInit == fn_in \in AuthValues \X AuthValues /\ fn_out = NoOut

\* format!("{}", auth) of both
AuthDisplay ==
    /\ fn_out = NoOut
    /\ fn_out' = [kind |-> "Display", out |-> <<Display_fmt(fn_in[1]), Display_fmt(fn_in[2])>>]
    /\ UNCHANGED <<fn_in, threads>>
    /\ UNCHANGED <<ivars, uvars, rvars>>

\* format!("{:?}", auth) of both
AuthDebug ==
    /\ fn_out = NoOut
    /\ fn_out' = [kind |-> "Debug", out |-> <<Debug_fmt(fn_in[1]), Debug_fmt(fn_in[2])>>]
    /\ UNCHANGED <<fn_in, threads>>
    /\ UNCHANGED <<ivars, uvars, rvars>>

ANext == AuthDisplay \/ AuthDebug

(***************************************************************************)
(* Part VI: GetUpdateRequests in Uptane mode (interpreter.rs 180-189)      *)
(***************************************************************************)
\* Verified::is_new (its code is not among the sources: modelled from the spec, 4.3)
is_new(verified) == verified.new_ver > verified.old_ver

\* A variant that fetches the root with get_root, which registers its roles anew.
uptane_get_update_requests_get_root(v, root, targets, t) ==
    LET r1 == IF root.k = "Err" THEN Failed(v, root.err)
              ELSE get_root(v, root.buf, t)
        r2 == IF r1.k = "Err" THEN r1
              ELSE IF targets.k = "Err" THEN Failed(r1.verifier, targets.err)
              ELSE get_director(r1.verifier, "Targets", targets.buf, t)
    IN [verified |-> r2,
        o |-> Outcome(IF r2.k = "Ok" THEN "ok" ELSE r2.err, "OK",
                      r2.k = "Ok" /\ is_new(r2), <<>>)]

\* process_command, the (GetUpdateRequests, Uptane) arm up to targets.is_new():
\* get_director(Root)?, then get_director(Targets)?; root and targets are what
\* get_json returns for them.  The result is the last Verified (or the failure) and
\* the Outcome the rest of the arm goes on with.
uptane_get_update_requests(v, root, targets, t) ==
    LET r1 == IF root.k = "Err" THEN Failed(v, root.err)
              ELSE get_director(v, "Root", root.buf, t)
        r2 == IF r1.k = "Err" THEN r1
              ELSE IF targets.k = "Err" THEN Failed(r1.verifier, targets.err)
              ELSE get_director(r1.verifier, "Targets", targets.buf, t)
    IN [verified |-> r2,
        o |-> Outcome(IF r2.k = "Ok" THEN "ok" ELSE r2.err, "OK",
                      r2.k = "Ok" /\ is_new(r2), <<>>)]

\* The root.json and targets.json bodies the director serves here: signed by k1 or
\* unsigned, of every version, none of them expired.
SignedByK1  == {<<>>, <<[keyid |-> "k1", ok |-> TRUE]>>}
RootTables  == <<Some({"k1"}), Some([r \in Roles |-> RoleMeta({"k1"}, 1)])>>
RootBodies  ==
    {TufSigned(sigs, RoleData("Root", ver, exp, RootTables[1], RootTables[2])) :
        sigs \in SignedByK1, ver \in 1..MaxVer, exp \in {MaxNow + 1}}
TargetsBodies ==
    {TufSigned(sigs, RoleData(type, ver, exp, NoKeys, NoRoles)) :
        sigs \in SignedByK1, type \in Roles, ver \in 1..MaxVer, exp \in {MaxNow + 1}}

\* get_json with these bodies served: the file if it exists, else what the GET
\* returns.
Fetched(role) ==
    IF metadata["director"][role].exists
    THEN {[k |-> "Ok", err |-> "", buf |-> metadata["director"][role].buf]}
    ELSE {[k |-> "Ok", err |-> "", buf |-> b] :
             b \in (IF role = "Root" THEN RootBodies ELSE TargetsBodies)}
         \cup {[k |-> "Err", err |-> "Http", buf |-> NoBuf]}

\* The root is fetched with get_root before the first command is processed.
Startup ==
    /\ fn_out = NoOut
    /\ GetRoot
    /\ call'.service = "director"
    /\ call'.got \in Fetched("Root")

\* The CommandInterpreter processes GetUpdateRequests in Uptane mode.  fn_out keeps
\* the targets fetched, the targets version stored before, the Verified and the
\* terminal event; fn_in keeps the same of the command before.
UptaneGetUpdateRequests ==
    /\ call.pc = "idle"
    /\ \E root \in Fetched("Root") : \E targets \in Fetched("Targets") :
        LET got == uptane_get_update_requests(verifier, root, targets, now)
            ret == process_command(Cmd("GetUpdateRequests", 0, "", ""), "Uptane", got.o)
        IN /\ verifier' = got.verified.verifier
           /\ fn_out' = [kind |-> "GetUpdateRequests",
                         out  |-> [targets  |-> targets,
                                   before   |-> version_of(verifier, "Targets"),
                                   verified |-> [got.verified EXCEPT !.verifier = NoVerifier],
                                   event    |-> terminal_event(ret)]]
    /\ fn_in' = IF fn_out = NoOut THEN <<>>
                ELSE <<[targets |-> fn_out.out.targets, event |-> fn_out.out.event]>>
    /\ UNCHANGED <<metadata, persist, now, call, threads>>
    /\ UNCHANGED <<ivars, rvars>>

(***************************************************************************)
(* Part VII: process_command on one command and one answer of the world    *)
(***************************************************************************)
MaxFetched == 3     \* update requests in the list fetched here

\* GetUpdateRequests outside Uptane mode with every fetched list, and StartInstall in
\* SOTA mode with every result code; each also with the errors of the HTTP client.
CommandCases ==
    {[cmd |-> Cmd("GetUpdateRequests", 0, "", ""), mode |-> m,
      o |-> Outcome("ok", "OK", FALSE, reqs)] :
        m \in {"Sota", "Rvi"}, reqs \in SeqsUpTo(Requests, MaxFetched)}
    \cup {[cmd |-> Cmd("StartInstall", id, "", ""), mode |-> "Sota",
           o |-> Outcome("ok", code, FALSE, <<>>)] : id \in Ids, code \in InstallCodes}
    \cup {[cmd |-> c, mode |-> "Sota", o |-> Outcome(e, "OK", FALSE, <<>>)] :
            c \in {Cmd("GetUpdateRequests", 0, "", ""), Cmd("StartInstall", 1, "", "")},
            e \in HttpErrs}

CInit == fn_in \in CommandCases /\ fn_out = NoOut

\* CommandInterpreter::interpret up to the terminal event, for the command, mode and
\* answer of fn_in.
ProcessCommand ==
    /\ fn_out = NoOut
    /\ LET ret == process_command(fn_in.cmd, fn_in.mode, fn_in.o)
       IN fn_out' = [kind |-> "process_command",
                     out  |-> [pre |-> ret.pre, k |-> ret.k, event |-> terminal_event(ret)]]
    /\ UNCHANGED <<fn_in, threads>>
    /\ UNCHANGED <<ivars, uvars, rvars>>

CNext == ProcessCommand

(***************************************************************************)
(* Part VIII: Uptane::extract_packages (uptane.rs 170-180)                 *)
(***************************************************************************)
Refnames == {"ref1", "ref2"}
Commits  == {"commit1", "commit2"}

\* TufMeta: hashes.get("sha256") and custom (an Option of TufCustom, whose
\* ecuIdentifier is read as it is).
NoHash    == [some |-> FALSE, val |-> ""]
NoCustom  == [some |-> FALSE, ecuIdentifier |-> ""]
TufMetas  ==
    [sha256 : {NoHash} \cup {Some(commit) : commit \in Commits},
     custom : {NoCustom} \cup {[some |-> TRUE, ecuIdentifier |-> ecu] : ecu \in {"ecu1", "ecu2"}}]

\* HashMap<String, TufMeta>
TargetMaps == UNION {[names -> TufMetas] : names \in SUBSET Refnames}

\* OstreePackage::new(ecu, refname, commit, "", treehub)
OstreePackage(ecu, refname, commit) == [ecu |-> ecu, refname |-> refname, commit |-> commit]

\* extract_packages: filter_map over the targets.  A target without sha256 gives None
\* before custom is read; for one with sha256, custom.as_ref().expect("no custom
\* field") panics if custom is None.  The Vec is in the HashMap's order, which is
\* not fixed: the result is given as the set of its elements (no two are equal, the
\* refnames differ).
extract_packages(targets) ==
    LET hashed == {refname \in DOMAIN targets : targets[refname].sha256.some}
    IN IF \E refname \in hashed : ~targets[refname].custom.some
       THEN [k |-> "Panic", packages |-> {}]
       ELSE [k |-> "Ok",
             packages |-> {OstreePackage(targets[refname].custom.ecuIdentifier, refname,
                                         targets[refname].sha256.val) : refname \in hashed}]

EInit == fn_in \in TargetMaps /\ fn_out = NoOut

ExtractPackages ==
    /\ fn_out = NoOut
    /\ fn_out' = [kind |-> "extract_packages", out |-> extract_packages(fn_in)]
    /\ UNCHANGED <<fn_in, threads>>
    /\ UNCHANGED <<ivars, uvars, rvars>>

ENext == ExtractPackages

(***************************************************************************)
(* Part IX: install_package_update (ota_plus.rs 108-148)                   *)
(***************************************************************************)
\* What the world answers to one call: download is "ok" or the error of
\* download_package_update; installer is what install_package returns, Ok((code, _))
\* or Err((code, _)) (dpkg.rs 24-42); updated is "ok" or the error of
\* update_installed_packages.  The receiver of tx is alive.
InstallerResults ==
    {[k |-> "Ok", code |-> code] : code \in {"OK", "ALREADY_PROCESSED"}}
    \cup {[k |-> "Err", code |-> code] : code \in {"INSTALL_FAILED", "GENERAL_ERROR"}}

InstallCases ==
    [id : Ids, download : {"ok", "Io"} \cup HttpErrs, installer : InstallerResults,
     updated : {"ok", "Package"} \cup HttpErrs]

\* Result<UpdateReport, Error> and the events sent on tx, in order.
UpdateReport(events, code)  == [events |-> events, k |-> "Ok", code |-> code, err |-> ""]
NoUpdateReport(events, err) == [events |-> events, k |-> "Err", code |-> "", err |-> err]

\* install_package_update: the events it sends on tx and what it returns
install_package_update(id, download, installer, updated) ==
    LET Installing == Ev("UpdateStateChanged", id, "Installing", "")
        Installed  == Ev("UpdateStateChanged", id, "Installed", "")
        Errored    == Ev("UpdateErrored", id, "", "")
    IN IF download # "ok" THEN UpdateReport(<<Errored>>, "GENERAL_ERROR")
       ELSE IF installer.k = "Err" THEN UpdateReport(<<Installing, Errored>>, installer.code)
       ELSE IF updated # "ok" THEN NoUpdateReport(<<Installing, Installed>>, updated)
       ELSE UpdateReport(<<Installing, Installed>>, installer.code)

PInit == fn_in \in InstallCases /\ fn_out = NoOut

InstallPackageUpdate ==
    /\ fn_out = NoOut
    /\ fn_out' = [kind |-> "install_package_update",
                  out  |-> install_package_update(fn_in.id, fn_in.download, fn_in.installer,
                                                  fn_in.updated)]
    /\ UNCHANGED <<fn_in, threads>>
    /\ UNCHANGED <<ivars, uvars, rvars>>

PkgNext == InstallPackageUpdate

(***************************************************************************)
(* Part X: the metadata cache of the Uptane client (uptane.rs, persist)    *)
(***************************************************************************)

\* The root.json bodies the services serve here: signed by k1 or unsigned, of every
\* version, expired at the end of the clock or never, with or without key and role
\* tables.
CachedRoots ==
    {TufSigned(sigs, RoleData("Root", ver, exp, tb[1], tb[2])) :
        sigs \in SignedByK1, ver \in 1..MaxVer, exp \in {0, MaxNow + 1},
        tb \in {<<NoKeys, NoRoles>>, RootTables}}

\* The call that has just returned got its bytes from these bodies (or no bytes).
ServedHere(bodies) == call'.got.k = "Ok" => call'.got.buf \in bodies

\* get_root, for either service
CacheGetRoot == GetRoot /\ ServedHere(CachedRoots)

\* get_director, for root.json (the file, once it is written) and targets.json
CacheGetDirector == GetDirector /\ ServedHere(CachedRoots \cup TargetsBodies)

KNext == CacheGetRoot \/ CacheGetDirector \/ Return \/ Tick

(***************************************************************************)
(* Part XI: one transfer, its chunks delivered in some order               *)
(***************************************************************************)
MaxImage   == 3     \* largest image delivered here
MaxDeliver == 4     \* most chunk requests of one delivery

\* The image of n bytes, each byte different, and the chunk of an index when the
\* image is cut into count chunks of chunk_size bytes (the last one shorter).
ImageOf(n) == [i \in 1..n |-> i]
ChunkOf(n, count, index) ==
    LET size == (n + count - 1) \div count
        last == IF (index + 1) * size < n THEN (index + 1) * size ELSE n
    IN SubSeq(ImageOf(n), index * size + 1, last)

\* The deliveries: an image, the number of its chunks (none of them empty), the
\* order in which the indexes arrive (each at least once), and whether the
\* acknowledgements reach the backend.
Deliveries ==
    {[size |-> n, count |-> c, order |-> o, sent |-> a] :
        n \in 1..MaxImage, c \in 1..MaxImage, o \in SeqsUpTo(0..(MaxImage - 1), MaxDeliver),
        a \in BOOLEAN}

Complete(d) ==
    /\ \A i \in 0..(d.count - 1) : ChunkOf(d.size, d.count, i) # <<>>
    /\ {d.order[i] : i \in DOMAIN d.order} = 0..(d.count - 1)

\* handle_service for each chunk request of the order, one after the other.
RECURSIVE deliver_chunks(_, _, _, _)
deliver_chunks(d, k, r, t) ==
    IF k > Len(d.order) THEN [remote |-> r, transfers |-> t]
    ELSE LET msg == Chunk(1, base64_encode(ChunkOf(d.size, d.count, d.order[k])), d.order[k])
             a   == handle_service("/sota/chunk", msg, r, t, d.sent)
         IN deliver_chunks(d, k + 1, a.remote, a.transfers)

\* Notify, Start, the chunk requests and Finish of update 1; what it returns is the
\* transfer before Finish and the answer to Finish.
deliver(d) ==
    LET n == handle_service("/sota/notify", Notify(1, d.size), NoRemote, NoTransfers, TRUE)
        s == handle_service("/sota/start", Start(1, d.count, sha256(ImageOf(d.size))),
                            n.remote, n.transfers, TRUE)
        c == deliver_chunks(d, 1, s.remote, s.transfers)
        f == handle_service("/sota/finish", Finish(1, "sig"), c.remote, c.transfers, TRUE)
    IN [chunks_written |-> c.transfers.active[1].chunks_written,
        file           |-> c.transfers.active[1].file,
        finish         |-> [reply |-> f.reply, event |-> f.event,
                            active |-> DOMAIN f.transfers.active]]

DInit == fn_in \in {d \in Deliveries : Complete(d)} /\ fn_out = NoOut

Deliver ==
    /\ fn_out = NoOut
    /\ fn_out' = [kind |-> "deliver", out |-> deliver(fn_in)]
    /\ UNCHANGED <<fn_in, threads>>
    /\ UNCHANGED <<ivars, uvars, rvars>>

DNext == Deliver

(***************************************************************************)
(* Part XII: handle_service on one request                                 *)
(***************************************************************************)

\* The service paths: the six registered ones and another.
ServicePaths == {"/sota/notify", "/sota/start", "/sota/chunk", "/sota/finish",
                 "/sota/getpackages", "/sota/abort", "/sota/other"}

ParameterOf(service) ==
    CASE service = "/sota/notify"      -> "Notify"
      [] service = "/sota/start"       -> "Start"
      [] service = "/sota/chunk"       -> "Chunk"
      [] service = "/sota/finish"      -> "Finish"
      [] service = "/sota/getpackages" -> "Report"
      [] service = "/sota/abort"       -> "Abort"
      [] OTHER                         -> "-"

\* The message bodies: one that decodes as no request, for each Parameter one with
\* an empty parameters list and some with one parameter.
RequestBodies ==
    {Malformed}
    \cup {NoParameters(P) : P \in {"Notify", "Start", "Chunk", "Finish", "Report", "Abort"}}
    \cup {Notify(1, 1), Start(1, 1, sha256(ImageOf(1))), Start(2, 1, sha256(ImageOf(1))),
          Chunk(1, base64_encode(ImageOf(1)), 0), Chunk(1, NotBase64, 0),
          Chunk(1, base64_encode(ImageOf(1)), 1), Finish(1, "sig"), Report, Abort}

\* The states of the services a request finds: nothing announced; update 1
\* announced; its transfer started; its only chunk written.
RECURSIVE ServiceState(_)
ServiceState(n) ==
    IF n = 0 THEN [remote |-> NoRemote, transfers |-> NoTransfers]
    ELSE LET b == ServiceState(n - 1)
             m == CASE n = 1 -> Notify(1, 1)
                    [] n = 2 -> Start(1, 1, sha256(ImageOf(1)))
                    [] OTHER -> Chunk(1, base64_encode(ImageOf(1)), 0)
             a == handle_service(CASE n = 1 -> "/sota/notify" [] n = 2 -> "/sota/start"
                                   [] OTHER -> "/sota/chunk", m, b.remote, b.transfers, TRUE)
         IN [remote |-> a.remote, transfers |-> a.transfers]

ServiceCases ==
    [service : ServicePaths, msg : RequestBodies, found : 0..3, sent : BOOLEAN]

SInit == fn_in \in ServiceCases /\ fn_out = NoOut

\* Services::handle_service
HandleService ==
    /\ fn_out = NoOut
    /\ LET b == ServiceState(fn_in.found)
           a == handle_service(fn_in.service, fn_in.msg, b.remote, b.transfers, fn_in.sent)
       IN fn_out' = [kind |-> "handle_service",
                     out  |-> [reply |-> a.reply, code |-> a.code, err |-> a.err,
                               event |-> a.event]]
    /\ UNCHANGED <<fn_in, threads>>
    /\ UNCHANGED <<ivars, uvars, rvars>>

SNext == HandleService

GNext == Startup \/ Return \/ UptaneGetUpdateRequests

\* The interpreter loops at rest.
IIdle ==
    /\ mode = "Uptane" /\ pacman = "Uptane" /\ auto_dl = TRUE /\ sysinfo = FALSE
    /\ ei_auth = "Certificate" /\ cfg_auth = FALSE /\ initial = TRUE
    /\ cmdq = <<>> /\ broadcast = <<>> /\ ei_pos = 0
    /\ ci_pc = "recv" /\ ci_cur = Idle /\ ci_auth = "None" /\ ci_http = "None"
    /\ taken = 0 /\ gw_sent = 0 /\ rvi_sent = 0

\* The Uptane client at rest.
UIdle == UInit /\ persist = FALSE

(***************************************************************************)
(* The specifications                                                      *)
(***************************************************************************)
vars == <<ivars, uvars, rvars, ovars>>

\* The two loops and the gateways; the RVI services' events are left to a second
\* specification.
Init == IInit /\ UIdle /\ RIdle /\ LIdle /\ FIdle

Spec == Init /\ [][INext]_vars

\* The EventInterpreter's thread loops on recv: an event in its input is interpreted.
SpecFair == Spec /\ WF_vars(EIInterpret)

\* The two loops in SOTA mode with a package manager, both of them running fairly:
\* each loops on recv, so an event in the input of the EventInterpreter is
\* interpreted and a command in the queue of the CommandInterpreter is processed.
InitSota == IInit /\ mode = "Sota" /\ pacman # "Off" /\ UIdle /\ RIdle /\ LIdle /\ FIdle

SpecSotaFair ==
    InitSota /\ [][INext]_vars
        /\ WF_vars(EIInterpret) /\ WF_vars(CIProcess) /\ WF_vars(CISend)

\* The calls of the Uptane client, in any order, every body coming from the services:
\* the bytes a call reads from a file that get_root has written are bytes a service
\* has served, so the verifier sees nothing with persist set that it does not see
\* here.
InitUptane == IIdle /\ UInit /\ persist = FALSE /\ RIdle /\ LIdle /\ FIdle

SpecUptane == InitUptane /\ [][UNext]_vars

\* The requests of the RVI node, in any order.
InitRvi == IIdle /\ UIdle /\ RInit /\ LIdle /\ FIdle

SpecRvi == InitRvi /\ [][RNext]_vars

\* The requests for small images, the prune ticker and the clock.
InitPrune == IIdle /\ UIdle /\ RInit /\ LIdle /\ FIdle

SpecPrune == InitPrune /\ [][PNext]_vars

\* The requests, the prune ticker and the clock, with the sizes announced anew.
InitSizes == IIdle /\ UIdle /\ RInit /\ LIdle /\ FIdle

SpecSizes == InitSizes /\ [][ZNext]_vars

\* The same, with the prune thread running for ever (its loop has no exit) and every
\* request answered.
SpecPruneFair == SpecPrune /\ WF_vars(Reply) /\ SF_vars(Prune)

\* The threads of the RVI services, the prune ticker and the CommandInterpreter,
\* as far as they lock.
InitLocks == IIdle /\ UIdle /\ RIdle /\ LInit /\ FIdle

SpecLocks == InitLocks /\ [][LNext]_vars

\* Any two Auth values, rendered by Display or by Debug.
InitAuth == IIdle /\ UIdle /\ RIdle /\ LIdle /\ AInit

SpecAuth == InitAuth /\ [][ANext]_vars

\* GetUpdateRequests in Uptane mode, again and again, after the root is registered.
InitUpdates == IIdle /\ UIdle /\ RIdle /\ LIdle /\ FIdle

SpecUpdates == InitUpdates /\ [][GNext]_vars

\* The calls of the Uptane client with and without persist, on a small set of bodies.
InitCache == IIdle /\ UInit /\ RIdle /\ LIdle /\ FIdle

SpecCache == InitCache /\ [][KNext]_vars

\* One transfer from Notify to Finish.
InitDeliver == IIdle /\ UIdle /\ RIdle /\ LIdle /\ DInit

SpecDeliver == InitDeliver /\ [][DNext]_vars

\* One request, handled once.
InitService == IIdle /\ UIdle /\ RIdle /\ LIdle /\ SInit

SpecService == InitService /\ [][SNext]_vars

\* The packages of one targets map, extracted once.
InitExtract == IIdle /\ UIdle /\ RIdle /\ LIdle /\ EInit

SpecExtract == InitExtract /\ [][ENext]_vars

\* One call of install_package_update.
InitInstall == IIdle /\ UIdle /\ RIdle /\ LIdle /\ PInit

SpecInstall == InitInstall /\ [][PkgNext]_vars

\* One command, processed once.
InitCommand == IIdle /\ UIdle /\ RIdle /\ LIdle /\ CInit

SpecCommand == InitCommand /\ [][CNext]_vars


(***************************************************************************)
(* Part I.  Properties of the interpreter loops (specification Spec)       *)
(***************************************************************************)

Log == DOMAIN broadcast

\* The events the CommandInterpreter sent for its n-th command: at the end of
\* interpret (terminal) and inside process_command (intermediate).
TermsOf(n) == {i \in Log : broadcast[i].src = "ci" /\ broadcast[i].kind = "term"
                              /\ broadcast[i].n = n}
MidsOf(n)  == {i \in Log : broadcast[i].src = "ci" /\ broadcast[i].kind = "mid"
                              /\ broadcast[i].n = n}

\* The n-th command has been dealt with: a later one was received, or the
\* interpreter is back at recv / has left the loop.
DoneWith(n) == n < taken \/ ci_pc # "process"

\* Every terminal event of command n precedes every event of a later command.
BeforeNext(n) ==
    \A i \in TermsOf(n) : \A j \in Log :
        (broadcast[j].src = "ci" /\ broadcast[j].n > n) => i < j

\* The commands process_command does not return from in SOTA mode.
NoReturnInSota(cmd) ==
    \/ cmd.t = "Shutdown"
    \/ cmd.t \in {"SendInstalledSoftware", "UptaneSendManifest", "UptaneStartInstall"}
    \/ cmd.t = "Authenticate" /\ cmd.x = "Credentials" /\ ~cfg_auth

ErrorEvent(res) ==
    IF res = "HttpAuth" THEN Ev("NotAuthenticated", 0, "", "")
    ELSE Ev("Error", 0, to_string(res), "")

\* C2 (as stated): whenever the execution of a command fails, its terminal event is
\* NotAuthenticated for HttpAuth and Error(stringified error) otherwise, for every
\* command, StartDownload included.
C2_Original ==
    \A i \in Log :
        (broadcast[i].kind = "term" /\ broadcast[i].res # "ok")
            => broadcast[i].ev = ErrorEvent(broadcast[i].res)

\* C2 (amended): the rule holds for every command except StartDownload outside RVI
\* mode, whose failed download of any kind (HttpAuth included) ends with
\* DownloadFailed(id, stringified error), and UptaneStartInstall, whose failed
\* installer ends with UptaneInstallFailed.
C2_ErrorMapping ==
    \A i \in Log :
        LET e == broadcast[i]  c == e.exec.cmd
        IN (e.kind = "term" /\ e.res # "ok") =>
             CASE c.t = "StartDownload" /\ mode # "Rvi"
                    -> e.ev = Ev("DownloadFailed", c.id, to_string(e.res), "")
               [] c.t = "UptaneStartInstall" /\ e.res = "Install"
                    -> e.ev.t = "UptaneInstallFailed"
               [] OTHER -> e.ev = ErrorEvent(e.res)

\* An HTTP auth failure and another failure have both ended a command.
C2_Witness ==
    /\ \E i \in Log : broadcast[i].kind = "term" /\ broadcast[i].res = "HttpAuth"
                        /\ broadcast[i].ev.t = "NotAuthenticated"
    /\ \E i \in Log : broadcast[i].kind = "term" /\ broadcast[i].res = "Http"
                        /\ broadcast[i].ev.t = "Error"

\* The intermediate event of a streaming command.
Intermediate(cmd) ==
    IF cmd.t = "StartDownload" THEN Ev("DownloadingUpdate", cmd.id, "", "")
    ELSE Ev("InstallingUpdate", cmd.id, "", "")

\* C3: in SOTA mode the intermediate event of StartDownload(id) / StartInstall(id)
\* (DownloadingUpdate(id) / InstallingUpdate(id)) is broadcast exactly once, strictly
\* before the terminal event of that command, and no event of another command lies
\* between the two.
C3_IntermediateBeforeTerminal ==
    mode = "Sota" =>
        \A i \in Log :
            LET e == broadcast[i]
            IN (e.kind = "term" /\ e.exec.cmd.t \in {"StartDownload", "StartInstall"}) =>
                 /\ Cardinality(MidsOf(e.n)) = 1
                 /\ \A j \in MidsOf(e.n) :
                       /\ j < i
                       /\ broadcast[j].ev = Intermediate(e.exec.cmd)
                       /\ \A k \in (j + 1)..(i - 1) :
                             broadcast[k].src = "ci" => broadcast[k].n = e.n
                 /\ \A j \in Log :
                       (broadcast[j].ev = Intermediate(e.exec.cmd) /\ broadcast[j].n = e.n)
                           => j \in MidsOf(e.n)

\* A streaming command has ended in SOTA mode with an event of the EventInterpreter
\* broadcast between its intermediate and its terminal event.
C3_Witness ==
    /\ mode = "Sota"
    /\ \E i \in Log :
          /\ broadcast[i].kind = "term"
          /\ broadcast[i].exec.cmd.t \in {"StartDownload", "StartInstall"}
          /\ \E j \in MidsOf(broadcast[i].n) :
                \E k \in (j + 1)..(i - 1) : broadcast[k].src = "ei"

\* The chain of C4 and what precedes each of its events.
Chain == <<"DownloadingUpdate", "DownloadComplete", "InstallingUpdate", "InstallComplete">>

Preceded(i, t) ==
    \E j \in 1..(i - 1) : broadcast[j].ev.t = t /\ broadcast[j].ev.id = broadcast[i].ev.id

Returned == call.pc = "returned"
Accepted == Returned /\ call.ret.k = "Ok"
Rejected == Returned /\ call.ret.k = "Err" /\ call.got.k = "Ok"
Signed   == call.got.buf

\* The key ids registered for the role of the call that have signed its metadata with
\* a signature that verifies.
SignedBy ==
    {id \in KeyIds :
        /\ call.role \in DOMAIN verifier.roles
        /\ id \in verifier.roles[call.role].keyids
        /\ \E i \in DOMAIN Signed.signatures :
              Signed.signatures[i].keyid = id /\ Signed.signatures[i].ok}

\* C5: metadata for a role is accepted only if the number of distinct key ids,
\* registered for that role, whose signatures verify is at least the threshold of the
\* role; signatures by one key id count once.
C5_Threshold ==
    Accepted =>
        /\ call.role \in DOMAIN verifier.roles
        /\ Cardinality(SignedBy) >= verifier.roles[call.role].threshold

\* Metadata of a role of threshold 2 has been accepted.
C5_Witness ==
    /\ Accepted
    /\ verifier.roles[call.role].threshold = 2
    /\ Len(Signed.signatures) = 2

\* C6: the version stored for a role never decreases.
C6_Original ==
    [][\A r \in DOMAIN verifier.roles :
          r \in DOMAIN verifier'.roles /\ verifier'.roles[r].version >= verifier.roles[r].version]_vars

VerifyErrors ==
    {"UptaneInvalidRole", "UptaneMissingSignatures", "UptaneRoleThreshold", "UptaneExpired",
     "UptaneOldVersion"}

\* C7: when the verification of fetched metadata fails, the version stored for the
\* role is the same after the call as before it.
C7_Original ==
    (Rejected /\ call.ret.err \in VerifyErrors) =>
        version_of(verifier, call.role) = version_of(call.before, call.role)

Replied    == rpc.pc = "replied"
WasActive  == Replied /\ rpc.msg.t \in {"Start", "Chunk", "Finish"}
                      /\ rpc.msg.update_id \in DOMAIN rpc.before.transfers.active
Writer     == rpc.before.transfers.active[rpc.msg.update_id]
Completed  == /\ Replied /\ rpc.service = "/sota/finish" /\ rpc.msg.t = "Finish"
              /\ \/ rpc.event.t = "DownloadComplete"
                 \/ /\ rpc.msg.update_id \in DOMAIN rpc.before.transfers.active
                    /\ rpc.msg.update_id \notin DOMAIN transfers.active
Started    == /\ Replied /\ rpc.service = "/sota/start" /\ rpc.msg.t = "Start"
              /\ rpc.msg.update_id \in DOMAIN transfers.active

\* C9: a Finish emits DownloadComplete, or removes the transfer from active, only
\* if the transfer was active with chunks_written = {0..chunks_count-1}, the SHA-256
\* of its file equal to its checksum and the file as long as its size; and a
\* transfer's checksum and chunks_count are the ones given in its Start, its size
\* the one a Notify had announced for the id when the Start came.
C9_FinishVerifies ==
    /\ Completed =>
          /\ WasActive
          /\ rpc.event = Ev("DownloadComplete", rpc.msg.update_id,
                            Writer.meta.image_name, rpc.msg.signature)
          /\ rpc.msg.update_id \notin DOMAIN transfers.active
          /\ Writer.chunks_written = 0..(Writer.meta.expected_chunks - 1)
          /\ sha256(Writer.file) = Writer.meta.expected_sha256
          /\ Len(Writer.file) = Writer.meta.expected_size
    /\ Started =>
          /\ rpc.msg.update_id \in DOMAIN rpc.before.transfers.image_sizes
          /\ transfers.active[rpc.msg.update_id].meta =
                ImageMeta(image_name(rpc.msg.update_id),
                          rpc.before.transfers.image_sizes[rpc.msg.update_id],
                          rpc.msg.chunkscount, rpc.msg.checksum)

\* A Finish has completed a transfer of MaxCount chunks.
C9_Witness ==
    /\ Completed /\ rpc.event.t = "DownloadComplete"
    /\ Writer.meta.expected_chunks = MaxCount
    /\ Writer.chunks_written = 0..(MaxCount - 1)

\* C10: every index in chunks_written of an active transfer is smaller than the
\* transfer's chunks_count; a Chunk for an active transfer whose index is not
\* smaller is answered with an error and leaves the transfers as they were.
C10_IndexInRange ==
    /\ \A id \in DOMAIN transfers.active :
          \A i \in transfers.active[id].chunks_written :
              i < transfers.active[id].meta.expected_chunks
    /\ (WasActive /\ rpc.msg.t = "Chunk" /\ rpc.msg.index >= Writer.meta.expected_chunks) =>
          /\ rpc.reply = "RpcErr"
          /\ transfers = rpc.before.transfers

\* A Chunk with a decodable payload and an index that is too large has been
\* rejected by a transfer that had a chunk already.
C10_Witness ==
    /\ WasActive /\ rpc.msg.t = "Chunk" /\ rpc.msg.bytes # NotBase64
    /\ rpc.msg.index >= Writer.meta.expected_chunks
    /\ Writer.chunks_written # {}
    /\ rpc.reply = "RpcErr"

\* A Chunk has been written: whether or not its acknowledgement could be sent.
Written == /\ WasActive /\ rpc.msg.t = "Chunk"
           /\ (rpc.reply = "RpcOk" \/ rpc.err = "error sending ChunkReceived")

\* How often index occurs in the chunks of an acknowledgement.
Occurrences(ack, index) ==
    Cardinality({i \in DOMAIN ack[1].chunks : ack[1].chunks[i] = index})

\* C11: when a Chunk that has been written is delivered again (same update id, index
\* and bytes), chunks_written and the file of every transfer stay as the first
\* delivery left them, and the acknowledged chunk list holds the index once.
C11_ChunkIdempotent ==
    Written =>
        /\ Occurrences(rpc.ack, rpc.msg.index) = 1
        /\ \A sent \in BOOLEAN :
              LET again == Chunk_handle(rpc.msg, remote, transfers, sent)
              IN /\ again.transfers = transfers
                 /\ Occurrences(again.ack, rpc.msg.index) = 1

\* A Chunk has been delivered to a transfer that had its index and bytes already,
\* next to another chunk.
C11_Witness ==
    /\ Written /\ rpc.reply = "RpcOk"
    /\ rpc.msg.index \in Writer.chunks_written
    /\ Cardinality(Writer.chunks_written) = 2
    /\ transfers = rpc.before.transfers

\* A Start for an id no Notify has announced; a Chunk for an id without a transfer.
Unannounced == /\ Replied /\ rpc.service = "/sota/start" /\ rpc.msg.t = "Start"
               /\ rpc.msg.update_id \notin DOMAIN rpc.before.transfers.image_sizes
NoTransfer  == /\ Replied /\ rpc.service = "/sota/chunk" /\ rpc.msg.t = "Chunk"
               /\ rpc.msg.update_id \notin DOMAIN rpc.before.transfers.active

\* C12: a Start for an update id whose size no Notify has announced fails and makes
\* no entry in active; a Chunk for an update id that is not in active fails and
\* writes nothing; both leave active and image_sizes as they were and send no Event.
C12_UnknownFails ==
    (Unannounced \/ NoTransfer) =>
        /\ rpc.reply = "RpcErr" /\ rpc.code = unspecified
        /\ rpc.msg.update_id \notin DOMAIN transfers.active
        /\ transfers = rpc.before.transfers
        /\ rpc.event = NoEv
        /\ rpc.ack = <<>>

\* A Start for an id that was not announced has failed while the other id has a
\* transfer with a chunk.
C12_Witness ==
    /\ Unannounced /\ rpc.reply = "RpcErr"
    /\ \E id \in DOMAIN transfers.active : transfers.active[id].chunks_written # {}

Aborted == Replied /\ rpc.service = "/sota/abort" /\ rpc.msg.t = "Abort"

\* C13: an Abort removes every transfer from active, whatever its update id, sends
\* no Event, and leaves image_sizes and the backend services as they were.
C13_AbortClears ==
    Aborted =>
        /\ rpc.reply = "RpcOk"
        /\ DOMAIN transfers.active = {}
        /\ rpc.event = NoEv
        /\ transfers.image_sizes = rpc.before.transfers.image_sizes
        /\ remote = rpc.before.remote

\* An Abort has come while both update ids had a transfer.
C13_Witness ==
    Aborted /\ DOMAIN rpc.before.transfers.active = Ids /\ Cardinality(Ids) > 1

(***************************************************************************)
(* The claims about the prune ticker                                       *)
(***************************************************************************)
Pruned == rpc.pc = "pruned"

\* The transfer of id has been idle for longer than the timeout.
Stale(t, id) == id \in DOMAIN t.active /\ clock - t.active[id].last_touched > Timeout

\* A round of the prune thread removes the transfers that are stale and no other.
PruneExact ==
    Pruned =>
        \A id \in DOMAIN rpc.before.transfers.active :
            IF Stale(rpc.before.transfers, id)
            THEN id \notin DOMAIN transfers.active
            ELSE /\ id \in DOMAIN transfers.active
                 /\ transfers.active[id] = rpc.before.transfers.active[id]

\* A transfer is touched by a Start or a Chunk for its update id and by nothing else.
TouchedByStartOrChunk ==
    Replied =>
        \A id \in DOMAIN transfers.active :
            LET w == transfers.active[id]
            IN \/ /\ id \in DOMAIN rpc.before.transfers.active
                  /\ w.last_touched = rpc.before.transfers.active[id].last_touched
               \/ /\ rpc.msg.t \in {"Start", "Chunk"}
                  /\ rpc.msg.update_id = id
                  /\ w.last_touched = clock

\* A Chunk or a Finish for an update id without a transfer fails as unknown.
UnknownAfterRemoval ==
    (/\ Replied /\ rpc.msg.t \in {"Chunk", "Finish"}
     /\ rpc.msg.update_id \notin DOMAIN rpc.before.transfers.active) =>
        /\ rpc.reply = "RpcErr"
        /\ rpc.err \in {"couldn't find transfer", "unknown package"}
        /\ transfers = rpc.before.transfers

\* C14: a transfer is touched only by a Start or a Chunk for its update id; a
\* round of the prune thread removes the transfers idle for longer than the timeout
\* and leaves the others as they are; a transfer idle for longer than the timeout
\* is removed (or touched again) eventually; a Chunk or Finish for an update id
\* without a transfer fails as unknown.
C14_PruneRemovesIdle ==
    /\ [](PruneExact /\ TouchedByStartOrChunk /\ UnknownAfterRemoval)
    /\ \A id \in Ids : Stale(transfers, id) ~> ~Stale(transfers, id)

\* A round of the prune thread has removed one transfer and kept the other, which
\* has a chunk and was touched after time 0.
C14_Witness ==
    /\ Pruned
    /\ \E id \in DOMAIN rpc.before.transfers.active : id \notin DOMAIN transfers.active
    /\ \E id \in DOMAIN transfers.active :
          /\ transfers.active[id].chunks_written # {}
          /\ transfers.active[id].last_touched > 0

(***************************************************************************)
(* The claims about the locks                                              *)
(***************************************************************************)
\* The thread waits for a mutex that another thread holds.
Waits(th) == /\ Busy(th) /\ ~AtEnd(th) /\ Step(th)[1] = "lock" /\ ~Free(Step(th)[2])
Wants(th, m) == Busy(th) /\ ~AtEnd(th) /\ Step(th) = Lock(m)
Holder(m) == CHOOSE th \in Threads : Holds(th, m)

\* Threads each of which waits for a mutex that one of them holds.
Deadlocked(set) ==
    set # {} /\ \A th \in set : Waits(th) /\ Holder(Step(th)[2]) \in set

\* C15: the threads never deadlock: there is no set of threads each waiting for a
\* mutex held by one of the set; a thread that holds both remote and transfers took
\* remote first; no thread asks for remote while it holds transfers.
C15_LockOrder ==
    /\ \A set \in SUBSET Threads : ~Deadlocked(set)
    /\ \A th \in Threads :
        /\ (Holds(th, "remote") /\ Holds(th, "transfers")) =>
              \E i, j \in DOMAIN threads[th].held :
                  /\ i < j
                  /\ threads[th].held[i] = "remote"
                  /\ threads[th].held[j] = "transfers"
        /\ Wants(th, "remote") => ~Holds(th, "transfers")

\* One handler holds remote and waits for transfers, which the prune thread holds,
\* while the other handler and the CommandInterpreter wait for remote.
C15_Witness ==
    \E th \in Handlers :
        /\ Holds(th, "remote") /\ Waits(th) /\ Holds("prune", "transfers")
        /\ \E other \in Handlers \ {th} : Waits(other) /\ Wants(other, "remote")
        /\ Waits("ci")

(***************************************************************************)
(* The claims about Auth                                                   *)
(***************************************************************************)
Rendered == fn_out.kind \in {"Display", "Debug"}

\* The secret fields of an Auth value.
SecretsOf(auth) == {auth.client_id, auth.client_secret, auth.access_token} \ {""}

Pieces(out) == {out[i] : i \in DOMAIN out}

\* C16: the Display and the Debug output of an Auth value depend on its variant
\* only: two values of one variant render the same, and no client_id, client_secret
\* or access_token is written.
C16_AuthDisplay ==
    Rendered =>
        /\ fn_in[1].variant = fn_in[2].variant => fn_out.out[1] = fn_out.out[2]
        /\ \A i \in {1, 2} : Pieces(fn_out.out[i]) \cap SecretsOf(fn_in[i]) = {}

\* Two Credentials with different secrets have been rendered by Debug.
C16_Witness ==
    /\ fn_out.kind = "Debug"
    /\ fn_in[1].variant = "Credentials" /\ fn_in[2].variant = "Credentials"
    /\ fn_in[1].client_secret # fn_in[2].client_secret

(***************************************************************************)
(* The claims about EventInterpreter::interpret                            *)
(***************************************************************************)
\* One step of the EventInterpreter: it receives the event Received, queues the
\* commands Queued and sends the events Injected on loop_tx.
EIStep   == ei_pos' = ei_pos + 1
Received == broadcast[ei_pos + 1].ev
Queued   == [i \in 1..(Len(cmdq') - Len(cmdq)) |-> cmdq'[Len(cmdq) + i].cmd]
Injected == [i \in 1..(Len(broadcast') - Len(broadcast)) |-> broadcast'[Len(broadcast) + i]]

\* The event the EventInterpreter has interpreted last, and the positions of the
\* Authenticated events it has interpreted.
LastReceived     == broadcast[ei_pos].ev
AuthenticatedAt  == {i \in 1..ei_pos : broadcast[i].ev.t = "Authenticated"}
InjectedOf(t)    == {i \in Log : broadcast[i].src = "ei" /\ broadcast[i].ev.t = t}

\* C17: the Authenticated event interpreted while initial holds sends
\* InstalledPackagesNeeded, SystemInfoNeeded, UptaneManifestNeeded, in this order, to
\* the interpreter's own input and clears initial; initial is never set again, an
\* Authenticated event interpreted later sends nothing and queues nothing, and the
\* bootstrap is sent at most once.
C17_BootstrapOnce ==
    /\ [][(EIStep /\ Received.t = "Authenticated") =>
             /\ Queued = <<>>
             /\ ~initial'
             /\ IF initial
                THEN /\ [i \in DOMAIN Injected |-> Injected[i].ev] = Bootstrap
                     /\ \A i \in DOMAIN Injected : Injected[i].src = "ei"
                ELSE Injected = <<>>]_vars
    /\ [][~initial => ~initial']_vars
    /\ [](/\ Cardinality(InjectedOf("SystemInfoNeeded")) <= 1
          /\ Cardinality(InjectedOf("UptaneManifestNeeded")) <= 1
          /\ initial => AuthenticatedAt = {})

\* Two Authenticated events have been interpreted, and the bootstrap was sent once.
C17_Witness ==
    /\ Cardinality(AuthenticatedAt) = 2
    /\ Cardinality(InjectedOf("UptaneManifestNeeded")) = 1
    /\ ~initial

\* What the claim has queued for one request; installed: pacman.is_installed of its
\* package.
ForRequest(request, installed) ==
    CASE request.status = "Pending" /\ auto_dl    -> <<Cmd("StartDownload", request.id, "", "")>>
      [] request.status = "Pending" /\ ~auto_dl   -> <<>>
      [] request.status = "InFlight" /\ pacman = "Off" -> <<>>
      [] request.status = "InFlight" /\ pacman # "Off" /\ installed
                                                   -> <<Cmd("SendInstallReport", request.id, "OK",
                                                            "<generated>")>>
      [] request.status = "InFlight" /\ pacman # "Off" /\ ~installed
                                                   -> <<Cmd("StartDownload", request.id, "", "")>>
      [] OTHER                                     -> <<>>

RECURSIVE ForRequests(_, _)
ForRequests(reqs, isinst) ==
    IF reqs = <<>> THEN <<>>
    ELSE ForRequests(SubSeq(reqs, 1, Len(reqs) - 1), isinst)
         \o ForRequest(reqs[Len(reqs)], reqs[Len(reqs)].id \in isinst)

\* C18: for the requests of an UpdatesReceived event the commands queued are, in
\* request order, at most one per request: StartDownload for Pending with auto_dl,
\* SendInstallReport(OK) for InFlight and installed, StartDownload for InFlight and
\* not installed (pacman not Off), nothing otherwise.
C18_UpdatesReceived ==
    [][(EIStep /\ Received.t = "UpdatesReceived") =>
         /\ \E isinst \in SUBSET Ids : Queued = ForRequests(Received.reqs, isinst)
         /\ Injected = <<>>]_vars

\* An UpdatesReceived event with an InFlight and a Pending request has been
\* interpreted; a report and a download are queued for them.
C18_Witness ==
    /\ ei_pos > 0
    /\ LastReceived.t = "UpdatesReceived"
    /\ Len(LastReceived.reqs) = 2
    /\ LastReceived.reqs[1].status = "InFlight" /\ LastReceived.reqs[2].status = "Pending"
    /\ Len(cmdq) = 2
    /\ cmdq[1] = CommandExec(Cmd("SendInstallReport", LastReceived.reqs[1].id, "OK",
                                 "<generated>"), "ei")
    /\ cmdq[2] = CommandExec(Cmd("StartDownload", LastReceived.reqs[2].id, "", ""), "ei")

\* C19: a DownloadComplete event has StartInstall of its update id queued exactly
\* if pacman is not Off, and nothing queued otherwise.
C19_DownloadComplete ==
    [][(EIStep /\ Received.t = "DownloadComplete") =>
         /\ pacman # "Off" => Queued = <<Cmd("StartInstall", Received.id, "", "")>>
         /\ pacman = "Off" => Queued = <<>>
         /\ Injected = <<>>]_vars

\* A DownloadComplete event has been interpreted with pacman Off, and nothing is
\* queued.
C19_Witness ==
    /\ ei_pos > 0
    /\ LastReceived.t = "DownloadComplete"
    /\ pacman = "Off"
    /\ cmdq = <<>> /\ ci_pc = "recv" /\ ei_pos = Len(broadcast)

\* C20: each DownloadFailed, InstallComplete and InstallFailed event has exactly one
\* SendInstallReport queued; for DownloadFailed(id, reason) it carries id,
\* GENERAL_ERROR and the reason.
C20_InstallReport ==
    [][(EIStep /\ Received.t \in {"DownloadFailed", "InstallComplete", "InstallFailed"}) =>
         /\ Len(Queued) = 1
         /\ Queued[1].t = "SendInstallReport"
         /\ Queued[1].id = Received.id
         /\ Received.t = "DownloadFailed" =>
                Queued[1] = Cmd("SendInstallReport", Received.id, "GENERAL_ERROR", Received.x)]_vars

\* A DownloadFailed event has been interpreted and its report is the last command
\* queued.
C20_Witness ==
    /\ ei_pos > 0
    /\ LastReceived.t = "DownloadFailed"
    /\ cmdq # <<>>
    /\ cmdq[Len(cmdq)] = CommandExec(Cmd("SendInstallReport", LastReceived.id, "GENERAL_ERROR",
                                         LastReceived.x), "ei")

(***************************************************************************)
(* The claims about GetUpdateRequests in Uptane mode                       *)
(***************************************************************************)
Fetching    == fn_out.kind = "GetUpdateRequests"
Last        == fn_out.out
TargetsVer(got) == got.targets.buf.signed.version

\* C21: GetUpdateRequests in Uptane mode ends with UptaneTargetsUpdated exactly when
\* the targets verify with a version greater than the one stored before the call,
\* and with UptaneNoUpdates when they verify with the version stored; two commands
\* in a row that fetch the same targets do not both end with UptaneTargetsUpdated.
C21_TargetsUpdated ==
    Fetching =>
        /\ Last.event.t \in {"UptaneTargetsUpdated", "UptaneNoUpdates", "Error"}
        /\ Last.event.t = "UptaneTargetsUpdated"
              <=> Last.verified.k = "Ok" /\ TargetsVer(Last) > Last.before
        /\ Last.event.t = "UptaneNoUpdates"
              <=> Last.verified.k = "Ok" /\ TargetsVer(Last) = Last.before
        /\ Last.verified.k = "Ok" => Last.targets.k = "Ok" /\ TargetsVer(Last) >= Last.before
        /\ \A i \in DOMAIN fn_in :
              fn_in[i].targets = Last.targets =>
                 ~(fn_in[i].event.t = "UptaneTargetsUpdated"
                   /\ Last.event.t = "UptaneTargetsUpdated")

\* Two commands in a row have fetched the same targets: the first ended with
\* UptaneTargetsUpdated, the second with UptaneNoUpdates.
C21_Witness ==
    /\ Fetching
    /\ Len(fn_in) = 1
    /\ fn_in[1].targets = Last.targets
    /\ fn_in[1].event.t = "UptaneTargetsUpdated"
    /\ Last.event.t = "UptaneNoUpdates"

(***************************************************************************)
(* The claims about process_command on one command                         *)
(***************************************************************************)
Processed(t) == fn_out.kind = "process_command" /\ fn_in.cmd.t = t

\* How often r occurs in the list reqs.
CountOf(r, reqs) == Cardinality({i \in DOMAIN reqs : reqs[i] = r})

\* C22: outside Uptane mode GetUpdateRequests whose fetch succeeds ends with
\* NoUpdateRequests exactly if the fetched list is empty, and else with
\* UpdatesReceived of a permutation of the fetched requests whose installPos does not
\* decrease.
C22_SotaUpdates ==
    (Processed("GetUpdateRequests") /\ fn_in.o.res = "ok") =>
        LET fetched == fn_in.o.reqs
            event   == fn_out.out.event
        IN /\ event.t = "NoUpdateRequests" <=> fetched = <<>>
           /\ fetched # <<>> =>
                /\ event.t = "UpdatesReceived"
                /\ Len(event.reqs) = Len(fetched)
                /\ \A r \in Requests : CountOf(r, event.reqs) = CountOf(r, fetched)
                /\ \A i \in 1..(Len(event.reqs) - 1) : event.reqs[i].pos <= event.reqs[i + 1].pos

\* Three requests fetched with decreasing installPos have been sorted.
C22_Witness ==
    /\ Processed("GetUpdateRequests")
    /\ fn_in.o.res = "ok"
    /\ Len(fn_in.o.reqs) = 3
    /\ fn_in.o.reqs[1].pos = 2 /\ fn_in.o.reqs[2].pos = 2 /\ fn_in.o.reqs[3].pos = 1
    /\ fn_out.out.event.reqs # fn_in.o.reqs

\* C23: StartInstall in SOTA mode whose installer returns a result ends with
\* InstallComplete of that result exactly if its code is OK or ALREADY_PROCESSED, and
\* with InstallFailed of it for every other code.
C23_InstallResult ==
    (Processed("StartInstall") /\ fn_in.o.res = "ok") =>
        LET code  == fn_in.o.code
            event == fn_out.out.event
        IN /\ event.t \in {"InstallComplete", "InstallFailed"}
           /\ event.t = "InstallComplete" <=> code \in {"OK", "ALREADY_PROCESSED"}
           /\ event.id = fn_in.cmd.id /\ event.x = code

\* An install has ended with the code ALREADY_PROCESSED and InstallComplete.
C23_Witness ==
    /\ Processed("StartInstall")
    /\ fn_in.o.res = "ok" /\ fn_in.o.code = "ALREADY_PROCESSED"
    /\ fn_out.out.event.t = "InstallComplete"

(***************************************************************************)
(* The claim about extract_packages                                        *)
(***************************************************************************)
Extracted == fn_out.kind = "extract_packages"

\* The targets that have a sha256 hash and a custom field with its ecuIdentifier.
Installable(targets) ==
    {refname \in DOMAIN targets : targets[refname].sha256.some /\ targets[refname].custom.some}

\* C24: extract_packages returns one install descriptor for each target that has a
\* sha256 hash and a custom ecuIdentifier, and skips, without failing, every target
\* that lacks one of them.
C24_Original ==
    Extracted =>
        /\ fn_out.out.k = "Ok"
        /\ fn_out.out.packages =
              {OstreePackage(fn_in[refname].custom.ecuIdentifier, refname, fn_in[refname].sha256.val) :
                  refname \in Installable(fn_in)}

(***************************************************************************)
(* Further claims about the RVI services                                   *)
(***************************************************************************)
\* A Chunk for an active transfer whose bytes decode and whose index is in range; a
\* Start for an announced id.
GoodChunk == /\ WasActive /\ rpc.service = "/sota/chunk" /\ rpc.msg.t = "Chunk"
             /\ base64_decode(rpc.msg.bytes).k = "Ok"
             /\ rpc.msg.index < Writer.meta.expected_chunks
GoodStart == /\ Replied /\ rpc.service = "/sota/start" /\ rpc.msg.t = "Start"
             /\ rpc.msg.update_id \in DOMAIN rpc.before.transfers.image_sizes
AckFailed == rpc.reply = "RpcErr" /\ rpc.ack # <<>>

\* C25: a Chunk whose bytes decode and whose index is in range is written and its
\* index recorded whether or not the acknowledgement is sent, and a Start has its
\* transfer in active whether or not its acknowledgement is sent; the acknowledgement
\* is handed over after the write.
C25_AckAfterWrite ==
    /\ GoodChunk =>
          /\ rpc.msg.update_id \in DOMAIN transfers.active
          /\ LET writer == transfers.active[rpc.msg.update_id]
             IN /\ rpc.msg.index \in writer.chunks_written
                /\ writer.chunks_written = Writer.chunks_written \cup {rpc.msg.index}
                /\ writer.file = write_at(Writer.file, rpc.msg.index * chunk_size(Writer.meta),
                                          base64_decode(rpc.msg.bytes).data)
                /\ rpc.ack = <<ChunkReceived(rpc.msg.update_id, sorted(writer.chunks_written))>>
          /\ rpc.reply = "RpcErr" => rpc.err = "error sending ChunkReceived"
    /\ GoodStart =>
          /\ rpc.msg.update_id \in DOMAIN transfers.active
          /\ transfers.active[rpc.msg.update_id].chunks_written = {}
          /\ rpc.ack = <<ChunkReceived(rpc.msg.update_id, <<>>)>>
          /\ rpc.reply = "RpcErr" => rpc.err = "error sending start ack"

\* The acknowledgement of a Chunk has failed, and the chunk, which the transfer did
\* not have, is written.
C25_Witness ==
    /\ GoodChunk /\ AckFailed
    /\ rpc.msg.index \notin Writer.chunks_written
    /\ rpc.msg.index \in transfers.active[rpc.msg.update_id].chunks_written
    /\ transfers.active[rpc.msg.update_id].file # Writer.file

\* A Chunk or a Finish for an active transfer has been answered with an error.
FailedOnActive == /\ WasActive /\ rpc.msg.t \in {"Chunk", "Finish"}
                  /\ rpc.reply = "RpcErr"

\* C26: a Chunk or Finish that fails on an active transfer is answered with an RPC
\* error and sends no Event; the transfer stays in active (as it was, unless only the
\* acknowledgement of a written chunk failed), and every other transfer and
\* image_sizes are as before.
C26_FailureKeepsTransfer ==
    FailedOnActive =>
        /\ rpc.code = unspecified
        /\ rpc.event = NoEv
        /\ rpc.err \in {"couldn't decode chunk", "couldn't write chunk",
                         "error sending ChunkReceived", "couldn't assemble package"}
        /\ DOMAIN transfers.active = DOMAIN rpc.before.transfers.active
        /\ \A id \in DOMAIN transfers.active \ {rpc.msg.update_id} :
              transfers.active[id] = rpc.before.transfers.active[id]
        /\ transfers.image_sizes = rpc.before.transfers.image_sizes
        /\ rpc.err # "error sending ChunkReceived" => transfers = rpc.before.transfers
        /\ remote = rpc.before.remote

\* A Finish has failed on a transfer with a chunk missing, next to another transfer.
C26_Witness ==
    /\ FailedOnActive /\ rpc.msg.t = "Finish"
    /\ verify_image(Writer) = "incomplete"
    /\ Writer.chunks_written # {}
    /\ Cardinality(DOMAIN transfers.active) = 2

(***************************************************************************)
(* Further claims about the two interpreters                               *)
(***************************************************************************)
\* The terminal events of the UptaneStartInstall commands the EventInterpreter queued.
InstallTerms ==
    {i \in Log : /\ broadcast[i].src = "ci" /\ broadcast[i].kind = "term"
                 /\ broadcast[i].exec = CommandExec(Cmd("UptaneStartInstall", 0, "", ""), "ei")}

\* C27 (as stated): in Uptane mode an UptaneTargetsUpdated event has exactly one
\* UptaneStartInstall queued, whose terminal event is UptaneInstallComplete or
\* UptaneInstallFailed (for an error of the installer UptaneInstallFailed with the
\* manifest of the primary ECU alone), and that event has exactly one
\* UptaneSendManifest(Some(m)) queued.
C27_Original ==
    /\ [][(mode = "Uptane" /\ EIStep /\ Received.t = "UptaneTargetsUpdated") =>
             Queued = <<Cmd("UptaneStartInstall", 0, "", "")>>]_vars
    /\ [](mode = "Uptane" =>
             \A i \in InstallTerms :
                 /\ broadcast[i].ev.t \in {"UptaneInstallComplete", "UptaneInstallFailed"}
                 /\ broadcast[i].res = "Install" =>
                        broadcast[i].ev = Ev("UptaneInstallFailed", 0, "", "primary_ecu"))
    /\ [][(mode = "Uptane" /\ EIStep
            /\ Received.t \in {"UptaneInstallComplete", "UptaneInstallFailed"}) =>
             Queued = <<Cmd("UptaneSendManifest", 0, "Some", Received.y)>>]_vars

(***************************************************************************)
(* The claim about install_package_update                                  *)
(***************************************************************************)
InstalledUpdate == fn_out.kind = "install_package_update"

\* The variants and states of the events sent, in order.
Sent(events) ==
    [i \in DOMAIN events |-> IF events[i].t = "UpdateErrored" THEN "UpdateErrored"
                              ELSE events[i].x]

\* C28 (as stated): a call of install_package_update sends [UpdateErrored] and
\* returns a report with GENERAL_ERROR when the download fails, sends [Installing,
\* UpdateErrored] and returns a report with the installer's code when the install
\* fails, and sends [Installing, Installed] and returns a report with the installer's
\* code otherwise.
C28_Original ==
    InstalledUpdate =>
        LET r == fn_out.out
        IN /\ r.k = "Ok"
           /\ CASE fn_in.download # "ok" ->
                      Sent(r.events) = <<"UpdateErrored">> /\ r.code = "GENERAL_ERROR"
                [] fn_in.download = "ok" /\ fn_in.installer.k = "Err" ->
                      /\ Sent(r.events) = <<"Installing", "UpdateErrored">>
                      /\ r.code = fn_in.installer.code
                [] OTHER ->
                      /\ Sent(r.events) = <<"Installing", "Installed">>
                      /\ r.code = fn_in.installer.code


\* ---------------------------------------------------------------- C29

\* C29: the step that interprets a NotAuthenticated event queues exactly one
\* command, Authenticate with the auth of the EventInterpreter, and sends nothing
\* on loop_tx; no step changes the EventInterpreter's auth, pacman, auto_dl or
\* sysinfo, and a step that changes initial changes it from TRUE to FALSE.
C29_NotAuthenticated ==
    /\ [][(EIStep /\ Received.t = "NotAuthenticated") =>
              /\ Queued = <<Cmd("Authenticate", 0, ei_auth, "")>>
              /\ Injected = <<>>]_vars
    /\ [][/\ ei_auth' = ei_auth
          /\ pacman' = pacman
          /\ auto_dl' = auto_dl
          /\ sysinfo' = sysinfo
          /\ (initial' # initial => initial /\ ~initial')]_vars

\* A NotAuthenticated event has been interpreted after the bootstrap, when the
\* CommandInterpreter holds another auth than the EventInterpreter, and its
\* Authenticate command is the last of the queue.
C29_Witness ==
    /\ ei_pos > 0
    /\ LastReceived.t = "NotAuthenticated"
    /\ ~initial
    /\ ci_auth # ei_auth
    /\ cmdq # <<>>
    /\ cmdq[Len(cmdq)] = CommandExec(Cmd("Authenticate", 0, ei_auth, ""), "ei")


\* ---------------------------------------------------------------- C30

\* The EventInterpreter has interpreted an InstallReportSent event and no
\* InstalledPackagesNeeded event after it.
ReportUnanswered ==
    \E i \in 1..ei_pos :
        /\ broadcast[i].ev.t = "InstallReportSent"
        /\ \A j \in (i + 1)..ei_pos : broadcast[j].ev.t # "InstalledPackagesNeeded"

SendInstalledPackages == Cmd("SendInstalledPackages", 0, "", "")

\* The step that interprets InstallReportSent sends InstalledPackagesNeeded, and
\* nothing else, to the interpreter's own input and queues no command.
ReportInjects ==
    (EIStep /\ Received.t = "InstallReportSent") =>
        /\ Queued = <<>>
        /\ Len(Injected) = 1
        /\ Injected[1].ev = Ev("InstalledPackagesNeeded", 0, "", "")
        /\ Injected[1].src = "ei"

\* C30 (as stated): the step that interprets InstallReportSent sends
\* InstalledPackagesNeeded to the interpreter's own input, and the step that
\* interprets InstalledPackagesNeeded queues exactly one SendInstalledPackages
\* command if pacman is not Off and no command if pacman is Off.
C30_Original ==
    [][/\ ReportInjects
       /\ (EIStep /\ Received.t = "InstalledPackagesNeeded") =>
              Queued = IF pacman # "Off" THEN <<SendInstalledPackages>> ELSE <<>>]_vars

\* C30 (amended): the step that interprets InstallReportSent sends
\* InstalledPackagesNeeded to the interpreter's own input; the step that interprets
\* InstalledPackagesNeeded queues no command if pacman is Off and, if pacman is not
\* Off, either exactly one SendInstalledPackages command or (when
\* pacman.installed_packages() fails) no command; and while the process runs every
\* interpreted InstallReportSent is eventually followed by the interpretation of an
\* InstalledPackagesNeeded event.
C30_PackagesAfterReport ==
    /\ [][/\ ReportInjects
          /\ (EIStep /\ Received.t = "InstalledPackagesNeeded") =>
                 /\ Injected = <<>>
                 /\ IF pacman # "Off" THEN Queued \in {<<SendInstalledPackages>>, <<>>}
                                      ELSE Queued = <<>>]_vars
    /\ ReportUnanswered ~> (~ReportUnanswered \/ ~Running)

\* The InstalledPackagesNeeded event sent for an InstallReportSent event has been
\* interpreted with pacman not Off, and it queued nothing (the only command taken
\* so far is the one that sent the report): installed_packages() failed.
C30_Witness ==
    /\ pacman # "Off"
    /\ ei_pos > 1
    /\ broadcast[ei_pos - 1].ev.t = "InstallReportSent"
    /\ LastReceived.t = "InstalledPackagesNeeded"
    /\ broadcast[ei_pos].src = "ei"
    /\ cmdq = <<>>
    /\ taken = 1
    /\ ~ReportUnanswered


(***************************************************************************)
(* The claims about the metadata cache                                     *)
(***************************************************************************)
\* A call returns in this step.
Returning == call.pc = "idle" /\ call'.pc = "returned"

\* The files of the cache.
Cached == {sr \in Services \X Roles : metadata[sr[1]][sr[2]].exists}

\* C31: the cache changes only in a get_root step that returns Ok with persist set,
\* and then root.json of the service called becomes the bytes just verified (signed
\* and not expired); a call that returns an error leaves the cache unchanged; so
\* every file of the cache is a root.json written with persist set that carries
\* signatures and key and role tables.
C31_PersistAfterVerify ==
    /\ [][metadata' # metadata =>
              /\ Returning
              /\ call'.op = "get_root"
              /\ call'.ret.k = "Ok"
              /\ persist
              /\ call'.got.buf.signatures # <<>>
              /\ ~expired(call'.got.buf.signed, now)
              /\ metadata' = [metadata EXCEPT ![call'.service]["Root"] = File(call'.got.buf)]]_vars
    /\ [][(Returning /\ call'.ret.k = "Err") => metadata' = metadata]_vars
    /\ [](\A sr \in Cached :
            /\ persist
            /\ sr[2] = "Root"
            /\ metadata[sr[1]][sr[2]].buf.signatures # <<>>
            /\ metadata[sr[1]][sr[2]].buf.signed.keys.some)

\* With persist set and the director's root.json written, a get_root for the repo
\* has fetched a root that failed to verify, and the repo has no file.
C31_Witness ==
    /\ persist
    /\ Cached = {<<"director", "Root">>}
    /\ call.pc = "returned" /\ call.op = "get_root" /\ call.service = "repo"
    /\ call.got.k = "Ok" /\ call.ret.k = "Err"
    /\ call.got.buf.signed.keys.some


(***************************************************************************)
(* The claims about one transfer                                           *)
(***************************************************************************)
Delivered == fn_out.kind = "deliver"

\* The indexes 0 .. count - 1 in this order.
InOrder(d) == [d EXCEPT !.order = [i \in 1..d.count |-> i - 1]]

\* C32: the chunks of an image, delivered in any order that holds each index at
\* least once, leave the chunks_written and the file that the delivery in the order
\* of the indexes leaves (every index, and the image), and the Finish that follows
\* succeeds: it answers with DownloadComplete and removes the transfer.
C32_AnyOrder ==
    Delivered =>
        /\ fn_out.out.chunks_written = deliver(InOrder(fn_in)).chunks_written
        /\ fn_out.out.file = deliver(InOrder(fn_in)).file
        /\ fn_out.out.chunks_written = 0..(fn_in.count - 1)
        /\ fn_out.out.file = ImageOf(fn_in.size)
        /\ fn_out.out.finish.reply = "RpcOk"
        /\ fn_out.out.finish.event.t = "DownloadComplete"
        /\ fn_out.out.finish.active = {}

\* Three chunks of one byte each were delivered last first, the first one twice.
C32_Witness ==
    /\ Delivered
    /\ fn_in.order = <<2, 0, 1, 0>>
    /\ fn_in.size = 3
    /\ fn_out.out.file = <<1, 2, 3>>


(***************************************************************************)
(* The claims about handle_service on one request                          *)
(***************************************************************************)
Serviced == fn_out.kind = "handle_service"

\* C33 (as stated): for every service path and message body, a request with an
\* empty parameters list among them, handle_service returns one response: the error
\* -32600 for an unknown service path, the error -32602 for a message that does not
\* decode, the error -32100 when the handler fails, and a success otherwise.
C33_Original ==
    Serviced =>
        LET P == ParameterOf(fn_in.service)
            a == fn_out.out
        IN /\ a.reply \in {"RpcOk", "RpcErr"}
           /\ P = "-" => a.reply = "RpcErr" /\ a.code = -32600
           /\ (P # "-" /\ fn_in.msg.t # P) => a.reply = "RpcErr" /\ a.code = -32602
           /\ (P # "-" /\ fn_in.msg.t = P) =>
                  \/ a.reply = "RpcErr" /\ a.code = -32100
                  \/ a.reply = "RpcOk" /\ a.code = 0


(***************************************************************************)
(* The claims about the commands of the EventInterpreter and the mode      *)
(***************************************************************************)
\* The commands that an unreachable!() arm of process_command names.
ModeBound == {"SendInstalledSoftware", "StartInstall", "UptaneSendManifest", "UptaneStartInstall"}

\* The commands of the queue that the EventInterpreter has sent.
QueuedByEI == {cmdq[i].cmd.t : i \in {j \in DOMAIN cmdq : cmdq[j].by = "ei"}}

\* C34 (as stated): whatever the mode and the pacman setting, process_command never
\* panics in an unreachable!() arm on a command of the EventInterpreter: the
\* EventInterpreter queues StartInstall only when the mode is Sota, and
\* UptaneSendManifest and UptaneStartInstall only when it is Uptane.
C34_Original ==
    /\ (ci_pc = "panicked" /\ ci_cur.exec.by = "ei") => ci_cur.exec.cmd.t \notin ModeBound
    /\ "StartInstall" \in QueuedByEI => mode = "Sota"
    /\ QueuedByEI \cap {"UptaneSendManifest", "UptaneStartInstall"} # {} => mode = "Uptane"


\* The CommandInterpreter is processing StartDownload(id).
Downloading(id) ==
    ci_pc = "process" /\ ci_cur.exec.cmd = Cmd("StartDownload", id, "", "")

\* A SendInstallReport command for id, sent by the EventInterpreter, is in the queue.
ReportQueued(id) ==
    \E i \in DOMAIN cmdq :
        /\ cmdq[i].by = "ei"
        /\ cmdq[i].cmd.t = "SendInstallReport"
        /\ cmdq[i].cmd.id = id

\* The run is over: process::exit, a panic of the CommandInterpreter, or the last
\* command of the run has been received.
RunOver == ~Running \/ ci_pc = "panicked" \/ taken = MaxCmds

\* C35 (as stated): in SOTA mode with pacman not Off and both loops fair, a
\* StartDownload(id) that is processed is eventually followed by a SendInstallReport
\* command for id in the queue, unless the run is over before.
C35_Original == \A id \in Ids : Downloading(id) ~> (ReportQueued(id) \/ RunOver)


(***************************************************************************)
(* The claims about a second Start and about image_sizes                   *)
(***************************************************************************)
\* A Start for an announced update id whose transfer was active has been handled.
Restarted == GoodStart /\ rpc.msg.update_id \in DOMAIN rpc.before.transfers.active

\* C36: a Start for an update id that has an active transfer replaces the transfer,
\* whether or not its acknowledgement is sent: the new one has no chunks written and
\* an empty file, the chunks_count and checksum of this Start and the size announced
\* for the id, so that a Finish finds it incomplete; the other transfers stay.
C36_StartReplaces ==
    Restarted =>
        LET id == rpc.msg.update_id
            w  == transfers.active[id]
        IN /\ id \in DOMAIN transfers.active
           /\ w.chunks_written = {}
           /\ w.file = <<>>
           /\ w.meta.expected_chunks = rpc.msg.chunkscount
           /\ w.meta.expected_sha256 = rpc.msg.checksum
           /\ w.meta.expected_size = rpc.before.transfers.image_sizes[id]
           /\ verify_image(w) = "incomplete"
           /\ \A other \in DOMAIN rpc.before.transfers.active \ {id} :
                  /\ other \in DOMAIN transfers.active
                  /\ transfers.active[other] = rpc.before.transfers.active[other]

\* The transfer replaced was complete (a Finish would have succeeded), and the new
\* Start gives another chunks_count.
C36_Witness ==
    /\ Restarted
    /\ verify_image(Writer) = "Ok"
    /\ Writer.meta.expected_chunks # rpc.msg.chunkscount
    /\ transfers.active[rpc.msg.update_id].chunks_written = {}


\* A Notify for an update id whose transfer was active has been handled.
NotifiedActive ==
    /\ Replied /\ rpc.service = "/sota/notify" /\ rpc.msg.t = "Notify"
    /\ rpc.msg.update_id \in DOMAIN rpc.before.transfers.active

\* C37: no step removes an entry of image_sizes, and a step that changes image_sizes
\* is a Notify that inserts its size for its update id (so Finish, Abort, failed
\* requests and the prune thread leave image_sizes as it is); a Start for an update
\* id that has an entry registers its transfer and fails at most in sending its
\* acknowledgement; a Notify for an update id with an active transfer leaves active,
\* the expected size of that transfer included, as it was.
C37_SizesKept ==
    /\ [][/\ \A id \in DOMAIN transfers.image_sizes : id \in DOMAIN transfers'.image_sizes
          /\ transfers'.image_sizes # transfers.image_sizes =>
                 /\ rpc'.pc = "replied"
                 /\ rpc'.service = "/sota/notify"
                 /\ rpc'.msg.t = "Notify"
                 /\ transfers'.image_sizes =
                        insert(transfers.image_sizes, rpc'.msg.update_id, rpc'.msg.size)]_vars
    /\ [](GoodStart =>
            /\ rpc.msg.update_id \in DOMAIN transfers.active
            /\ rpc.reply = "RpcOk" \/ rpc.err = "error sending start ack")
    /\ [](NotifiedActive => transfers.active = rpc.before.transfers.active)

\* The prune thread has removed a transfer whose update id is still in image_sizes,
\* with another size than the transfer expected: a Notify came after its Start.
C37_Witness ==
    /\ Pruned
    /\ \E id \in DOMAIN rpc.before.transfers.active :
          /\ id \notin DOMAIN transfers.active
          /\ id \in DOMAIN transfers.image_sizes
          /\ transfers.image_sizes[id] # rpc.before.transfers.active[id].meta.expected_size


(***************************************************************************)
(* The claims about a get_root that fails                                  *)
(***************************************************************************)
\* get_root has fetched a root with keys and roles, and its verification has failed.
RootRejected ==
    /\ Rejected /\ call.op = "get_root"
    /\ Signed.signed.keys.some /\ Signed.signed.roles.some
    /\ call.ret.err \in VerifyErrors

\* C38: after a get_root whose root carries keys and roles and fails to verify, the
\* verifier holds the keys it held before and those of the root, for every role of
\* the root the spec the root gives (its version 0), and the other roles as before:
\* what was registered before the verification stays.
C38_RegisteredOnFailure ==
    RootRejected =>
        LET keys  == Signed.signed.keys.val
            roles == Signed.signed.roles.val
        IN /\ verifier.keys = call.before.keys \cup keys
           /\ DOMAIN verifier.roles = DOMAIN call.before.roles \cup DOMAIN roles
           /\ \A r \in DOMAIN roles : verifier.roles[r] = roles[r]
           /\ \A r \in DOMAIN call.before.roles \ DOMAIN roles :
                  verifier.roles[r] = call.before.roles[r]

\* A root that failed to verify has left a key and a role spec that the verifier
\* did not hold before.
C38_Witness ==
    /\ RootRejected
    /\ verifier.keys # call.before.keys
    /\ "Root" \in DOMAIN call.before.roles
    /\ verifier.roles["Root"].keyids # call.before.roles["Root"].keyids


(***************************************************************************)
(* The claims about reading the metadata cache                             *)
(***************************************************************************)
\* C39: a call for a service and role whose file exists gets the bytes of the file
\* and nothing from the service; a file that exists is never changed; so a get_root
\* for a service whose root.json exists verifies the bytes of that file, whatever
\* the service would serve, and leaves the cache as it is.
C39_CacheWins ==
    /\ [][(Returning /\ metadata[call'.service][call'.role].exists) =>
              call'.got = [k |-> "Ok", err |-> "",
                           buf |-> metadata[call'.service][call'.role].buf]]_vars
    /\ [][\A sr \in Cached : metadata'[sr[1]][sr[2]] = metadata[sr[1]][sr[2]]]_vars
    /\ [][(Returning /\ call'.op = "get_root" /\ metadata[call'.service]["Root"].exists) =>
              /\ call'.got.buf.signed.version = metadata[call'.service]["Root"].buf.signed.version
              /\ metadata' = metadata]_vars

\* A get_root has read a root.json that was written before and has expired since:
\* it fails, and the file stays.
C39_Witness ==
    /\ Returned /\ call.op = "get_root"
    /\ metadata[call.service]["Root"].exists
    /\ call.got.buf = metadata[call.service]["Root"].buf
    /\ call.ret.err = "UptaneExpired"


(***************************************************************************)
(* The claims about authenticating again                                   *)
(***************************************************************************)
\* The CommandInterpreter receives an Authenticate command in this step, and the
\* authentication fails with Error::HttpAuth.
AuthRefused ==
    /\ taken' = taken + 1
    /\ Head(cmdq).cmd.t = "Authenticate"
    /\ ci_cur'.ret.k = "Err" /\ ci_cur'.ret.err = "HttpAuth"

\* The CommandInterpreter sends the terminal event of such a command in this step.
AuthRefusedSent ==
    /\ ci_pc = "process" /\ ci_pc' = "recv"
    /\ ci_cur.exec.cmd.t = "Authenticate"
    /\ ci_cur.ret.k = "Err" /\ ci_cur.ret.err = "HttpAuth"

\* The terminal events sent so far.
Terminals == {i \in Log : broadcast[i].src = "ci" /\ broadcast[i].kind = "term"}

\* C40: an Authenticate that fails with an HTTP auth failure leaves the auth and the
\* http client of the CommandInterpreter as they were and has NotAuthenticated, and
\* nothing else, as its terminal event; the EventInterpreter answers every
\* NotAuthenticated, however many came before, with one Authenticate command that
\* carries its auth, which is the auth of the command that failed when that one was
\* its own: nothing counts the attempts.
C40_NoRetryBound ==
    /\ [][AuthRefused =>
              /\ ci_auth' = ci_auth
              /\ ci_http' = ci_http
              /\ ci_pc' = "process"
              /\ Injected = <<>>]_vars
    /\ [][AuthRefusedSent =>
              /\ Len(Injected) = 1
              /\ Injected[1].ev = Ev("NotAuthenticated", 0, "", "")
              /\ ci_auth' = ci_auth
              /\ ci_http' = ci_http]_vars
    /\ [][(EIStep /\ Received.t = "NotAuthenticated") =>
              /\ Queued = <<Cmd("Authenticate", 0, ei_auth, "")>>
              /\ (broadcast[ei_pos + 1].exec.by = "ei"
                    /\ broadcast[ei_pos + 1].exec.cmd.t = "Authenticate") =>
                     Queued[1] = broadcast[ei_pos + 1].exec.cmd]_vars

\* Every command of the run was an Authenticate that failed with an HTTP auth
\* failure, the later ones sent by the EventInterpreter, and the next Authenticate
\* with the same credentials is in the queue; the CommandInterpreter has no auth.
C40_Witness ==
    /\ taken = MaxCmds
    /\ Cardinality(Terminals) = MaxCmds
    /\ \A i \in Terminals :
          /\ broadcast[i].ev.t = "NotAuthenticated"
          /\ broadcast[i].exec.cmd = Cmd("Authenticate", 0, "Credentials", "")
          /\ broadcast[i].n > 1 => broadcast[i].exec.by = "ei"
    /\ cmdq = <<CommandExec(Cmd("Authenticate", 0, "Credentials", ""), "ei")>>
    /\ ci_auth = "None"
    /\ ci_http = "None"

=============================================================================
